---- MODULE Spec2Model ----
(***************************************************************************)
(* A model of the LinkedIn scraper MCP server: the activity scraper        *)
(* (profile_page.py), the login page (login_page.py), the session          *)
(* lifecycle of the server (server.py) and the two connection-request      *)
(* loops (server.py, search_page.py).                                      *)
(*                                                                         *)
(* Each component has its own specification (SpecScrape, SpecLogin,        *)
(* SpecSession, SpecConnect).  The variables of the components a           *)
(* specification does not exercise stay at their initial values.           *)
(*                                                                         *)
(* Strings whose content the code inspects (text that is stripped, urls    *)
(* and urns that are searched for a marker) are sequences: a text is a     *)
(* sequence of one-character strings, a url or urn a sequence of tokens.   *)
(***************************************************************************)
EXTENDS Integers, Sequences, FiniteSets, TLC

VARIABLES
    \* ---- ProfilePage.scrape_linkedin_posts
    sp_pc,          \* position in scrape_linkedin_posts
    profile_ids,    \* the batch (argument)
    max_posts,      \* the cap (argument)
    sp_i,           \* index of the profile the for loop is at
    all_posts,      \* the accumulated result
    sp_raised,      \* an exception left scrape_linkedin_posts
    served,         \* per attempted profile: what the site did and what was kept
    sleeps,         \* per attempted profile: whether the pacing delay was taken
    \* ---- LoginPage
    lg_pc,          \* position in LoginPage.login
    email,          \* argument of login
    password,       \* argument of login
    url,            \* page.url, the address the page is at
    ops,            \* the page operations login has issued, in order
    lg_result,      \* what login returned: "none", "True", "False"
    lg_error,       \* what login raised: "none", "ValueError", "Exception"
    lg_probe,       \* what is_logged_in returned inside login ("none": not called)
    probe_value,    \* what the last is_logged_in call produced
    probe_faulted,  \* whether reading page.url faulted in that call
    \* ---- LinkedInLoginServer: the session fields and their lifecycle
    playwright,     \* self.playwright
    browser,        \* self.browser
    context,        \* self.context
    page,           \* self.page
    login_page,     \* self.login_page
    profile_page,   \* self.profile_page
    live,           \* the handles opened and not closed
    next_id,        \* the number of the next session to be constructed
    calls,          \* session operations called so far
    es_pc,          \* position in _ensure_browser / initialize_browser
    es_fn,          \* which of the two is running
    cl_pc,          \* position in _cleanup
    cl_ret,         \* where _cleanup was called from
    cl_exc,         \* an exception is in flight in _cleanup's try block
    cl_start,       \* the handle fields as _cleanup found them
    closes,         \* the close operations this run of _cleanup has invoked
    \* ---- the connection-request loops (server.py, search_page.py)
    cn_variant,     \* "server": _handle_send_connections; "search_page":
                    \* SearchPage.send_connection_requests
    cn_pc,          \* position in the loop
    max_connections,\* the quota (argument)
    custom_note,    \* the note template (argument), a sequence of parts
    cn_page,        \* iterations of the page loop begun
    buttons,        \* connect buttons found on the current page
    cn_b,           \* index of the button the inner loop is at
    cn_shown,       \* connect buttons the site has shown so far, all pages
    sent_requests,  \* the local counter of both loops
    results,        \* the local result list of both loops
    clicks,         \* connect buttons clicked so far
    profile_card,   \* the handler's local profile_card, the method's profile_info
    last_note,      \* the text last filled into the note field
    \* ---- the tool handlers (server.py)
    th_tool,        \* the tool name of the call being handled
    th_pc,          \* position in the handler
    th_exc,         \* str(e) of the exception the handler's except clause caught
    th_result,      \* the payload the handler returns
    th_log,         \* the steps the handler has taken in this call, in order
    \* ---- _handle_message (server.py)
    hm_pc,          \* position in _handle_message
    hm_id,          \* request.get("id") of the message being handled
    hm_method,      \* request.get("method")
    hm_invoked,     \* the handlers of the table called for this message
    hm_value,       \* what the handler returned
    hm_response,    \* the response printed for this message
    \* ---- ProfilePage._scroll_page
    sc_pc,          \* position in _scroll_page
    scrolls,        \* the scroll count (argument)
    sc_i,           \* iterations of the loop completed
    previous_height,\* the local previous_height
    heights,        \* the heights the method has observed, in order
    scrolled        \* scroll-to-bottom actions issued so far

scrapeVars == <<sp_pc, profile_ids, max_posts, sp_i, all_posts, sp_raised, served, sleeps>>

loginVars == <<lg_pc, email, password, url, ops, lg_result, lg_error, lg_probe,
               probe_value, probe_faulted>>

fieldVars == <<playwright, browser, context, page, login_page, profile_page>>

sessionVars == <<fieldVars, live, next_id, calls, es_pc, es_fn,
                 cl_pc, cl_ret, cl_exc, cl_start, closes>>

connectVars == <<cn_variant, cn_pc, max_connections, custom_note, cn_page, buttons,
                 cn_b, cn_shown, sent_requests, results, clicks, profile_card, last_note>>

toolVars == <<th_tool, th_pc, th_exc, th_result, th_log>>

messageVars == <<hm_pc, hm_id, hm_method, hm_invoked, hm_value, hm_response>>

scrollVars == <<sc_pc, scrolls, sc_i, previous_height, heights, scrolled>>

vars == <<scrapeVars, loginVars, sessionVars, connectVars, toolVars, messageVars, scrollVars>>

\* Python's None, for a field that holds a handle or nothing.
None == "None"

\* None in a field that holds a handle; a handle is its kind and the number of
\* the session it was opened for.
Nil == [kind |-> "None", id |-> 0]

\* The text of an element the document does not have (find() returned None).
NoElement == <<"(no element)">>

(***************************************************************************)
(* Bounds of the model.                                                    *)
(***************************************************************************)
MaxProfiles == 2    \* longest batch of profile ids
MaxDivs == 2        \* divs the site serves over one batch, all documents together
MaxPostsBound == 2  \* largest max_posts
MaxCalls == 3       \* session operations called on one server
MaxButtons == 3     \* connect buttons the site shows over one search, all pages together
MaxConnections == 3 \* largest max_connections
MaxScrolls == 3     \* largest scroll count
MaxMessages == 2    \* messages read by one server
MaxHeight == 2      \* largest document height

(***************************************************************************)
(* Sequence helpers.                                                       *)
(***************************************************************************)
RECURSIVE SeqsUpTo(_, _)
SeqsUpTo(S, n) ==
    IF n = 0 THEN {<<>>}
    ELSE LET shorter == SeqsUpTo(S, n - 1)
         IN  shorter \cup {Append(s, x) : s \in {t \in shorter : Len(t) = n - 1}, x \in S}

RECURSIVE Flatten(_)
Flatten(ss) == IF ss = <<>> THEN <<>> ELSE Head(ss) \o Flatten(Tail(ss))

\* Python's seq[:n]: the first n elements; for n < 0 all but the last -n.
PySliceTo(s, n) ==
    IF n >= 0
    THEN SubSeq(s, 1, IF n < Len(s) THEN n ELSE Len(s))
    ELSE SubSeq(s, 1, IF Len(s) + n > 0 THEN Len(s) + n ELSE 0)

\* Python's str.strip() on a text: leading and trailing blanks removed.
RECURSIVE LStrip(_)
LStrip(t) == IF t # <<>> /\ Head(t) = " " THEN LStrip(Tail(t)) ELSE t

RECURSIVE RStrip(_)
RStrip(t) ==
    IF t # <<>> /\ t[Len(t)] = " " THEN RStrip(SubSeq(t, 1, Len(t) - 1)) ELSE t

Strip(t) == RStrip(LStrip(t))

\* Python's `marker in s` on a url or urn, token by token.
Contains(s, marker) == \E k \in 1..Len(s) : s[k] = marker

(***************************************************************************)
(* The documents the site serves.  A document is the sequence of its div   *)
(* elements in document order; a div has its class, its data-urn           *)
(* attribute, the text of its div.update-components-text child (NoElement  *)
(* when there is no such child) and of its                                 *)
(* time.artdeco-entity-lockup__caption child (NoElement likewise).         *)
(***************************************************************************)
ActivityUrn == <<"urn", "li", "activity", "7">>
AdUrn == <<"urn", "li", "sponsored", "9">>

Divs ==
    { [feed |-> TRUE,  urn |-> ActivityUrn, text |-> <<"a">>,           time |-> <<"1", "d", " ">>],
      [feed |-> TRUE,  urn |-> ActivityUrn, text |-> <<" ", "b", " ">>, time |-> NoElement],
      [feed |-> TRUE,  urn |-> ActivityUrn, text |-> <<" ">>,           time |-> <<"2", "d">>],
      [feed |-> TRUE,  urn |-> ActivityUrn, text |-> NoElement,             time |-> <<"3", "d">>],
      [feed |-> TRUE,  urn |-> AdUrn,       text |-> <<"a">>,           time |-> NoElement],
      [feed |-> FALSE, urn |-> ActivityUrn, text |-> <<"b">>,           time |-> NoElement] }

\* The batches: the code never inspects a profile id, it only passes it on,
\* so the k-th profile of a batch has the id k.
Batches == {[k \in 1..n |-> k] : n \in 0..MaxProfiles}

\* The divs already served to this batch.
RECURSIVE DivsServed(_)
DivsServed(log) ==
    IF log = <<>> THEN 0 ELSE Len(Head(log).doc) + DivsServed(Tail(log))

(***************************************************************************)
(* ProfilePage: the pure parts.                                            *)
(***************************************************************************)
\* _parse_html_content: the div.feed-shared-update-v2 elements whose data-urn
\* holds "activity", in document order.
_parse_html_content(doc) ==
    SelectSeq(doc, LAMBDA d : d.feed /\ Contains(d.urn, "activity"))

\* _get_post_content: the stripped text of the text child, "" when absent.
_get_post_content(container) ==
    IF container.text = NoElement THEN <<>> ELSE Strip(container.text)

\* _get_timestamp: the stripped text of the time child, "" when absent.
_get_timestamp(container) ==
    IF container.time = NoElement THEN <<>> ELSE Strip(container.time)

PostRecord(profile_id, container) ==
    [profile_id |-> profile_id,
     content    |-> _get_post_content(container),
     timestamp  |-> _get_timestamp(container)]

\* Mutant of LimitContainers: a slice one element too long.
LimitContainersOneMore(containers, n) == PySliceTo(containers, n + 1)

\* The containers the comprehension of scrape_linkedin_posts iterates over.
LimitContainers(containers, n) == PySliceTo(containers, n)

\* Mutant of KeepContainer: the comprehension without its condition.
KeepContainerAlways(container) == TRUE

\* The condition of the comprehension: a truthy (non-empty) content.
KeepContainer(container) == _get_post_content(container) # <<>>

RECURSIVE MapRecords(_, _)
MapRecords(profile_id, containers) ==
    IF containers = <<>> THEN <<>>
    ELSE <<PostRecord(profile_id, Head(containers))>>
         \o MapRecords(profile_id, Tail(containers))

\* Mutant of ProfilePosts: the condition applied before the slice.
ProfilePostsFilterFirst(profile_id, containers, n) ==
    MapRecords(profile_id,
               LimitContainers(SelectSeq(containers, KeepContainer), n))

\* profile_posts: the list comprehension of scrape_linkedin_posts.
ProfilePosts(profile_id, containers, n) ==
    MapRecords(profile_id,
               SelectSeq(LimitContainers(containers, n), KeepContainer))

(***************************************************************************)
(* The state of each component while a specification exercises another.    *)
(***************************************************************************)
LoginIdle ==
    /\ lg_pc = "idle"
    /\ email = None
    /\ password = None
    /\ url = <<"about:blank">>
    /\ ops = <<>>
    /\ lg_result = "none"
    /\ lg_error = "none"
    /\ lg_probe = "none"
    /\ probe_value = "none"
    /\ probe_faulted = FALSE

ScrapeIdle ==
    /\ sp_pc = "idle"
    /\ profile_ids = <<>>
    /\ max_posts = 0
    /\ sp_i = 1
    /\ all_posts = <<>>
    /\ sp_raised = FALSE
    /\ served = <<>>
    /\ sleeps = <<>>

\* LinkedInLoginServer.__init__: every field None, nothing running.
SessionClosed ==
    /\ playwright = Nil
    /\ browser = Nil
    /\ context = Nil
    /\ page = Nil
    /\ login_page = Nil
    /\ profile_page = Nil

SessionIdle ==
    /\ SessionClosed
    /\ live = {}
    /\ next_id = 1
    /\ calls = 0
    /\ es_pc = "idle"
    /\ es_fn = "none"
    /\ cl_pc = "idle"
    /\ cl_ret = "none"
    /\ cl_exc = FALSE
    /\ cl_start = [playwright |-> Nil, browser |-> Nil, context |-> Nil]
    /\ closes = <<>>

\* A local variable that has not been assigned; null / None; a profile card.
Unbound == [state |-> "unbound", name |-> "", title |-> ""]
NullCard == [state |-> "null", name |-> "", title |-> ""]

ConnectIdle ==
    /\ cn_variant = "none"
    /\ cn_pc = "idle"
    /\ max_connections = 0
    /\ custom_note = <<>>
    /\ cn_page = 0
    /\ buttons = 0
    /\ cn_b = 1
    /\ cn_shown = 0
    /\ sent_requests = 0
    /\ results = <<>>
    /\ clicks = 0
    /\ profile_card = Unbound
    /\ last_note = <<>>

\* The payload of a tool result: success "True" or "False" with, on "False",
\* the error string; NoResult while the handler has produced none.
NoResult == [success |-> "none", error |-> "none"]

\* No tool call is being handled.
ToolIdle ==
    /\ th_tool = "none"
    /\ th_pc = "idle"
    /\ th_exc = "none"
    /\ th_result = NoResult
    /\ th_log = <<>>

\* A handler that returned None, as a value.
NoValue == <<None>>

NoResponse == [id |-> None, kind |-> "none", code |-> 0, body |-> <<>>]

\* No message is being handled and none has been.
MessageIdle ==
    /\ hm_pc = "idle"
    /\ hm_id = None
    /\ hm_method = None
    /\ hm_invoked = <<>>
    /\ hm_value = NoValue
    /\ hm_response = NoResponse

\* _scroll_page is not running.
ScrollIdle ==
    /\ sc_pc = "idle"
    /\ scrolls = 0
    /\ sc_i = 0
    /\ previous_height = 0
    /\ heights = <<>>
    /\ scrolled = 0

otherThanScrape == <<messageVars, loginVars, sessionVars, connectVars, toolVars, scrollVars>>
otherThanLogin == <<messageVars, scrapeVars, sessionVars, connectVars, toolVars, scrollVars>>
otherThanSession == <<messageVars, scrapeVars, loginVars, connectVars, toolVars, scrollVars>>
otherThanConnect == <<messageVars, scrapeVars, loginVars, sessionVars, toolVars, scrollVars>>
otherThanTool == <<scrapeVars, loginVars, connectVars, messageVars, scrollVars>>
otherThanScroll == <<scrapeVars, loginVars, sessionVars, connectVars, toolVars, messageVars>>
otherThanMessage == <<scrapeVars, loginVars, connectVars, scrollVars>>

(***************************************************************************)
(* ProfilePage.scrape_linkedin_posts, one action per awaited step of the   *)
(* loop body.  sp_pc: "for" (loop head), "nav", "wait", "scroll",          *)
(* "content", "done" (returned or raised).                                 *)
(***************************************************************************)
InitScrape ==
    /\ LoginIdle
    /\ SessionIdle
    /\ ConnectIdle
    /\ ToolIdle
    /\ ScrollIdle
    /\ MessageIdle
    /\ sp_pc = "for"
    /\ profile_ids \in Batches
    /\ max_posts \in -1..MaxPostsBound
    /\ sp_i = 1
    /\ all_posts = <<>>
    /\ sp_raised = FALSE
    /\ served = <<>>
    /\ sleeps = <<>>

Fate(kind, doc, got) == [fate |-> kind, doc |-> doc, got |-> got]

\* `continue`: on to the next profile id.
ContinueLoop ==
    /\ sp_i' = sp_i + 1
    /\ sp_pc' = "for"

\* Mutant of OnProfileFault: the fault leaves the loop and the method.
OnProfileFaultAbort(kind) ==
    /\ sp_pc' = "done"
    /\ sp_raised' = TRUE
    /\ served' = Append(served, Fate(kind, <<>>, <<>>))
    /\ UNCHANGED <<sp_i, all_posts>>

\* The handler `except Exception` of the loop body: log, continue.
OnProfileFault(kind) ==
    /\ ContinueLoop
    /\ served' = Append(served, Fate(kind, <<>>, <<>>))
    /\ UNCHANGED <<all_posts, sp_raised>>

\* The handler of the wait for a post container: log, continue.
OnNoPosts ==
    /\ ContinueLoop
    /\ served' = Append(served, Fate("no_container", <<>>, <<>>))
    /\ UNCHANGED <<all_posts, sp_raised>>

\* Mutant of ScrapeFor: the pacing delay is taken ahead of every profile but
\* the first.
ScrapeForDelayAfterFirst ==
    /\ UNCHANGED otherThanScrape
    /\ sp_pc = "for"
    /\ IF sp_i > Len(profile_ids)
       THEN /\ sp_pc' = "done"
            /\ UNCHANGED sleeps
       ELSE /\ sp_pc' = "nav"
            /\ sleeps' = Append(sleeps, sp_i > 1)
    /\ UNCHANGED <<profile_ids, max_posts, sp_i, all_posts, sp_raised, served>>

\* The loop head: the next profile id or the return; the pacing delay is taken
\* when the accumulated result is not empty.
ScrapeFor ==
    /\ UNCHANGED otherThanScrape
    /\ sp_pc = "for"
    /\ IF sp_i > Len(profile_ids)
       THEN /\ sp_pc' = "done"
            /\ UNCHANGED sleeps
       ELSE /\ sp_pc' = "nav"
            /\ sleeps' = Append(sleeps, Len(all_posts) > 0)
    /\ UNCHANGED <<profile_ids, max_posts, sp_i, all_posts, sp_raised, served>>

\* _navigate_to_profile: goto, which may fault (logged and raised again).
ScrapeNavigate ==
    /\ UNCHANGED otherThanScrape
    /\ sp_pc = "nav"
    /\ \E ok \in BOOLEAN :
          IF ok
          THEN /\ sp_pc' = "wait"
               /\ UNCHANGED <<sp_i, all_posts, sp_raised, served>>
          ELSE OnProfileFault("nav_fault")
    /\ UNCHANGED <<profile_ids, max_posts, sleeps>>

\* wait_for_selector('div.feed-shared-update-v2'): a container or the timeout.
ScrapeWait ==
    /\ UNCHANGED otherThanScrape
    /\ sp_pc = "wait"
    /\ \E appeared \in BOOLEAN :
          IF appeared
          THEN /\ sp_pc' = "scroll"
               /\ UNCHANGED <<sp_i, all_posts, sp_raised, served>>
          ELSE OnNoPosts
    /\ UNCHANGED <<profile_ids, max_posts, sleeps>>

\* _scroll_page, which may fault (logged and raised again).
ScrapeScroll ==
    /\ UNCHANGED otherThanScrape
    /\ sp_pc = "scroll"
    /\ \E ok \in BOOLEAN :
          IF ok
          THEN /\ sp_pc' = "content"
               /\ UNCHANGED <<sp_i, all_posts, sp_raised, served>>
          ELSE OnProfileFault("scroll_fault")
    /\ UNCHANGED <<profile_ids, max_posts, sleeps>>

\* Mutant of ScrapeContent: the records of a profile are put ahead of the
\* accumulated ones.
ScrapeContentPrepend ==
    /\ UNCHANGED otherThanScrape
    /\ sp_pc = "content"
    /\ \E doc \in SeqsUpTo(Divs, MaxDivs - DivsServed(served)), parsed \in BOOLEAN :
          IF parsed
          THEN LET profile_posts ==
                       ProfilePosts(profile_ids[sp_i], _parse_html_content(doc), max_posts)
               IN  /\ all_posts' = profile_posts \o all_posts
                   /\ served' = Append(served, Fate("ok", doc, profile_posts))
                   /\ ContinueLoop
                   /\ UNCHANGED sp_raised
          ELSE OnProfileFault("parse_fault")
    /\ UNCHANGED <<profile_ids, max_posts, sleeps>>

\* page.content(), _parse_html_content, the comprehension and the extend.
ScrapeContent ==
    /\ UNCHANGED otherThanScrape
    /\ sp_pc = "content"
    /\ \E doc \in SeqsUpTo(Divs, MaxDivs - DivsServed(served)), parsed \in BOOLEAN :
          IF parsed
          THEN LET profile_posts ==
                       ProfilePosts(profile_ids[sp_i], _parse_html_content(doc), max_posts)
               IN  /\ all_posts' = all_posts \o profile_posts
                   /\ served' = Append(served, Fate("ok", doc, profile_posts))
                   /\ ContinueLoop
                   /\ UNCHANGED sp_raised
          ELSE OnProfileFault("parse_fault")
    /\ UNCHANGED <<profile_ids, max_posts, sleeps>>

NextScrape ==
    \/ ScrapeFor
    \/ ScrapeNavigate
    \/ ScrapeWait
    \/ ScrapeScroll
    \/ ScrapeContent

SpecScrape == InitScrape /\ [][NextScrape]_vars

(***************************************************************************)
(* Claims about scrape_linkedin_posts, checked under SpecScrape.           *)
(***************************************************************************)
Faults == {"nav_fault", "no_container", "scroll_fault", "parse_fault"}

\* What each attempted profile contributed, in batch order.
Contributions == [k \in 1..Len(served) |-> served[k].got]

\* C2: a failure on a profile (navigation fault, no post container within the
\* timeout, scroll fault, parse fault) contributes no record, is not raised to
\* the caller and does not stop the later profiles from being attempted: the
\* result is the records of the profiles that did not fail, and at the return
\* every profile of the batch has been attempted.
C2_FaultIsolation ==
    /\ ~sp_raised
    /\ \A k \in 1..Len(served) : served[k].fate \in Faults => served[k].got = <<>>
    /\ all_posts = Flatten(Contributions)
    /\ sp_pc = "done" => Len(served) = Len(profile_ids)

\* C2 witness: a returned batch whose first profile failed and whose second
\* profile contributed records.
C2_Witness ==
    /\ sp_pc = "done"
    /\ Len(served) = 2
    /\ served[1].fate = "nav_fault"
    /\ served[2].fate = "ok"
    /\ all_posts # <<>>

\* The qualifying containers of the document served to the k-th profile.
Qualifying(k) == _parse_html_content(served[k].doc)

\* The indices, among the qualifying containers, of those with non-empty text.
NonEmptyIdx(k) ==
    {j \in 1..Len(Qualifying(k)) : _get_post_content(Qualifying(k)[j]) # <<>>}

\* The n-th smallest element of a set of indices.
NthOf(S, n) == CHOOSE j \in S : Cardinality({x \in S : x <= j}) = n

\* The contents of the qualifying containers with indices in S, in document order.
ContentsAt(k, S) ==
    [n \in 1..Cardinality(S) |-> _get_post_content(Qualifying(k)[NthOf(S, n)])]

ContentsGot(k) == [n \in 1..Len(served[k].got) |-> served[k].got[n].content]

\* C3 as stated: the cap is applied after the containers with empty text are
\* dropped, so a profile's records are the first max_posts of its qualifying
\* containers with non-empty text.
C3_Original ==
    \A k \in 1..Len(served) :
        (served[k].fate = "ok" /\ max_posts >= 0) =>
            LET S == NonEmptyIdx(k)
                first == {j \in S : Cardinality({x \in S : x <= j}) <= max_posts}
            IN  ContentsGot(k) = ContentsAt(k, first)

\* C3 as amended: the cap is applied first; a profile's records are the
\* containers with non-empty text among its first max_posts qualifying
\* containers (among containers[:max_posts]), in document order, so it returns
\* at most max_posts records and fewer when one of those has empty text.
C3_CapBeforeFilter ==
    \A k \in 1..Len(served) :
        served[k].fate = "ok" =>
            LET last == IF max_posts >= 0 THEN max_posts
                        ELSE Len(Qualifying(k)) + max_posts
                S == {j \in NonEmptyIdx(k) : j <= last}
            IN  /\ ContentsGot(k) = ContentsAt(k, S)
                /\ max_posts >= 0 => Len(served[k].got) <= max_posts

\* C3 witness: a profile with an empty-text container ahead of max_posts
\* containers with text returned fewer than max_posts records.
C3_Witness ==
    /\ sp_pc = "done"
    /\ max_posts = 1
    /\ \E k \in 1..Len(served) :
          /\ served[k].fate = "ok"
          /\ Cardinality(NonEmptyIdx(k)) >= max_posts
          /\ 1 \notin NonEmptyIdx(k)
          /\ served[k].got = <<>>

\* C4: no returned record has empty content.
C4_NoEmptyContent ==
    \A n \in 1..Len(all_posts) : all_posts[n].content # <<>>

\* C4 witness: a returned batch with a record, in which a qualifying container
\* with empty text lay within the cap and was left out.
C4_Witness ==
    /\ sp_pc = "done"
    /\ all_posts # <<>>
    /\ \E k \in 1..Len(served) :
          /\ served[k].fate = "ok"
          /\ \E j \in 1..Len(Qualifying(k)) :
                j <= max_posts /\ j \notin NonEmptyIdx(k)

\* C5: with max_posts = 0 no record is produced for any profile.
C5_ZeroCap == max_posts = 0 => all_posts = <<>>

\* C5 witness: a returned batch with max_posts = 0 in which a profile was served
\* a qualifying container with text.
C5_Witness ==
    /\ sp_pc = "done"
    /\ max_posts = 0
    /\ \E k \in 1..Len(served) : served[k].fate = "ok" /\ NonEmptyIdx(k) # {}

\* C28: the pacing delay is taken ahead of a profile exactly when an earlier
\* profile of the batch has produced a kept record; none ahead of the first
\* profile, none while the accumulated result is empty.
C28_PacingDelay ==
    \A k \in 1..Len(sleeps) :
        sleeps[k] <=> (\E j \in 1..(k - 1) : served[j].got # <<>>)

\* C28 witness: a returned batch of two profiles, the first of which produced
\* a record, with the delay taken ahead of the second only.
C28_Witness ==
    /\ sp_pc = "done"
    /\ sleeps = <<FALSE, TRUE>>
    /\ served[1].got # <<>>

\* The indices, among the qualifying containers of the k-th profile, of the
\* containers whose records are kept: those with non-empty text within the cap.
KeptIdx(k) ==
    LET last == IF max_posts >= 0 THEN max_posts ELSE Len(Qualifying(k)) + max_posts
    IN  {j \in NonEmptyIdx(k) : j <= last}

\* The contents of the records of the result that carry the id of the k-th
\* profile, in result order.
ContentsOf(k) ==
    LET mine == SelectSeq(all_posts, LAMBDA r : r.profile_id = profile_ids[k])
    IN  [n \in 1..Len(mine) |-> mine[n].content]

\* C29: the result is the kept records of the attempted profiles, profile by
\* profile in input order and within a profile in document order: the ids of
\* the records never step back to an earlier profile, and the records with
\* the id of a profile are the kept containers of its document, in order and
\* with repetitions.
C29_ConcatenationOrder ==
    /\ \A i, j \in 1..Len(all_posts) :
          i < j => all_posts[i].profile_id <= all_posts[j].profile_id
    /\ \A n \in 1..Len(all_posts) : all_posts[n].profile_id \in 1..Len(served)
    /\ \A k \in 1..Len(served) : ContentsOf(k) = ContentsAt(k, KeptIdx(k))

\* C29 witness: a returned batch of two profiles that produced one record
\* each, of different contents.
C29_Witness ==
    /\ sp_pc = "done"
    /\ Len(all_posts) = 2
    /\ all_posts[1].profile_id = 1
    /\ all_posts[2].profile_id = 2
    /\ all_posts[1].content # all_posts[2].content

(***************************************************************************)
(* ProfilePage._scroll_page, one action per iteration of its loop and one  *)
(* for the final wait.  The height of the document is what the page        *)
(* reports at each look.                                                   *)
(*   sc_pc: "idle", "loop", "final" (after the loop), "returned",          *)
(*          "raised".                                                      *)
(***************************************************************************)
InitScroll ==
    /\ ScrapeIdle
    /\ LoginIdle
    /\ SessionIdle
    /\ ConnectIdle
    /\ ToolIdle
    /\ MessageIdle
    /\ sc_pc = "loop"
    /\ scrolls \in 0..MaxScrolls
    /\ sc_i = 0
    /\ previous_height = 0
    /\ heights = <<>>
    /\ scrolled = 0

\* _scroll_page's `except Exception: log; raise`.
ScrollRaise ==
    /\ sc_pc' = "raised"
    /\ UNCHANGED <<sc_i, previous_height>>

\* Mutant of ScrollIteration: previous_height is not updated after a scroll.
ScrollIterationNoTracking ==
    /\ UNCHANGED otherThanScroll
    /\ sc_pc = "loop"
    /\ IF sc_i >= scrolls
       THEN /\ sc_pc' = "final"
            /\ UNCHANGED <<sc_i, previous_height, heights, scrolled>>
       ELSE \E current_height \in 0..MaxHeight, fault \in {"none", "height", "scroll"} :
               IF fault = "height"
               THEN /\ ScrollRaise
                    /\ UNCHANGED <<heights, scrolled>>
               ELSE /\ heights' = Append(heights, current_height)
                    /\ IF current_height = previous_height
                       THEN /\ sc_pc' = "final"
                            /\ UNCHANGED <<sc_i, previous_height, scrolled>>
                       ELSE /\ scrolled' = scrolled + 1
                            /\ IF fault = "scroll"
                               THEN ScrollRaise
                               ELSE /\ UNCHANGED previous_height
                                    /\ sc_i' = sc_i + 1
                                    /\ UNCHANGED sc_pc
    /\ UNCHANGED scrolls

\* One iteration of `for _ in range(scrolls)`: the height is read; equal to
\* previous_height, break; otherwise scroll to the bottom, wait, and keep the
\* height as previous_height.  Either evaluate may fault.
ScrollIteration ==
    /\ UNCHANGED otherThanScroll
    /\ sc_pc = "loop"
    /\ IF sc_i >= scrolls
       THEN /\ sc_pc' = "final"
            /\ UNCHANGED <<sc_i, previous_height, heights, scrolled>>
       ELSE \E current_height \in 0..MaxHeight, fault \in {"none", "height", "scroll"} :
               IF fault = "height"
               THEN /\ ScrollRaise
                    /\ UNCHANGED <<heights, scrolled>>
               ELSE /\ heights' = Append(heights, current_height)
                    /\ IF current_height = previous_height
                       THEN /\ sc_pc' = "final"
                            /\ UNCHANGED <<sc_i, previous_height, scrolled>>
                       ELSE /\ scrolled' = scrolled + 1
                            /\ IF fault = "scroll"
                               THEN ScrollRaise
                               ELSE /\ previous_height' = current_height
                                    /\ sc_i' = sc_i + 1
                                    /\ UNCHANGED sc_pc
    /\ UNCHANGED scrolls

\* The final wait after the loop, and the return.
ScrollFinalWait ==
    /\ UNCHANGED otherThanScroll
    /\ sc_pc = "final"
    /\ sc_pc' = "returned"
    /\ UNCHANGED <<scrolls, sc_i, previous_height, heights, scrolled>>

NextScroll ==
    \/ ScrollIteration
    \/ ScrollFinalWait

SpecScroll == InitScroll /\ [][NextScroll]_vars

(***************************************************************************)
(* Claims about _scroll_page, checked under SpecScroll.                    *)
(***************************************************************************)
\* The height observed one look earlier, 0 ahead of the first look.
HeightBefore(k) == IF k = 1 THEN 0 ELSE heights[k - 1]

\* The looks at which the height was the one observed one look earlier.
Stalled == {k \in 1..Len(heights) : heights[k] = HeightBefore(k)}

\* C30: _scroll_page issues at most `scrolls` scroll-to-bottom actions, one
\* for each look at which the height differs from the height of the look
\* before (0 at first), and none from the first look on at which the two are
\* equal: that look is the last, and a return without such a look follows
\* `scrolls` looks.
C30_ScrollTracking ==
    /\ scrolled <= scrolls
    /\ Len(heights) <= scrolls
    /\ scrolled = Len(heights) - Cardinality(Stalled)
    /\ \A k \in Stalled : k = Len(heights)
    /\ (sc_pc = "returned" /\ Stalled = {}) => Len(heights) = scrolls

\* C30 witness: called with a scroll count of 2 or more, the method has
\* returned after one scroll, the second look having found the height of the
\* first.
C30_Witness ==
    /\ sc_pc = "returned"
    /\ scrolls >= 2
    /\ Len(heights) = 2
    /\ heights[1] = heights[2]
    /\ scrolled = 1

(***************************************************************************)
(* LoginPage (login_page.py).  The addresses the page can be at; a url is  *)
(* the sequence of its path tokens, so that `"feed" in url` is Contains.   *)
(***************************************************************************)
LoginUrl == <<"linkedin.com", "login">>

Urls ==
    { <<"about:blank">>,
      LoginUrl,
      <<"linkedin.com", "feed">>,
      <<"linkedin.com", "mynetwork">>,
      <<"linkedin.com", "checkpoint", "challenge">>,
      <<"linkedin.com", "checkpoint", "lg", "login-submit", "feed">>,
      <<"linkedin.com", "security-verification">>,
      <<"linkedin.com", "uas", "login-submit">> }

\* Optional[str] arguments: None, the empty string, a value.
Credentials == {None, "", "secret"}

\* Python truthiness of an Optional[str].
Truthy(x) == x # None /\ x # ""

\* Mutant of is_logged_in: the fault of the address inspection is not caught.
is_logged_in_unguarded(current_url, fault) ==
    IF fault THEN "raised"
    ELSE IF Contains(current_url, "feed") \/ Contains(current_url, "mynetwork")
         THEN "True" ELSE "False"

\* is_logged_in: "feed" or "mynetwork" in page.url; False when reading it faults.
is_logged_in(current_url, fault) ==
    IF fault THEN "False"
    ELSE IF Contains(current_url, "feed") \/ Contains(current_url, "mynetwork")
         THEN "True" ELSE "False"

\* The predicate login waits for with wait_for_url.
RedirectSeen(u) ==
    \/ Contains(u, "feed")
    \/ Contains(u, "checkpoint")
    \/ Contains(u, "security-verification")

InitLogin ==
    /\ ScrapeIdle
    /\ SessionIdle
    /\ ConnectIdle
    /\ ToolIdle
    /\ ScrollIdle
    /\ MessageIdle
    /\ lg_pc = "idle"
    /\ email \in Credentials
    /\ password \in Credentials
    /\ url \in Urls
    /\ ops = <<>>
    /\ lg_result = "none"
    /\ lg_error = "none"
    /\ lg_probe = "none"
    /\ probe_value = "none"
    /\ probe_faulted = FALSE

\* login's `except Exception: log; raise`.
LoginRaise(kind) ==
    /\ lg_pc' = "raised"
    /\ lg_error' = kind
    /\ UNCHANGED lg_result

LoginReturn(value) ==
    /\ lg_pc' = "returned"
    /\ lg_result' = value
    /\ UNCHANGED lg_error

LoginGoOn(next) ==
    /\ lg_pc' = next
    /\ UNCHANGED <<lg_result, lg_error>>

\* A caller's probe: `await self.login_page.is_logged_in()`.
IsLoggedInCall ==
    /\ UNCHANGED otherThanLogin
    /\ lg_pc = "idle"
    /\ probe_value = "none"
    /\ \E fault \in BOOLEAN :
          /\ probe_value' = is_logged_in(url, fault)
          /\ probe_faulted' = fault
    /\ UNCHANGED <<lg_pc, email, password, url, ops, lg_result, lg_error, lg_probe>>

\* Mutant of LoginCall: only the email is checked.
LoginCallEmailOnly ==
    /\ UNCHANGED otherThanLogin
    /\ lg_pc = "idle"
    /\ IF ~Truthy(email)
       THEN LoginRaise("ValueError")
       ELSE LoginGoOn("probe")
    /\ UNCHANGED <<email, password, url, ops, lg_probe, probe_value, probe_faulted>>

\* login, entry: the credentials check, ahead of the try block.
LoginCall ==
    /\ UNCHANGED otherThanLogin
    /\ lg_pc = "idle"
    /\ IF ~Truthy(email) \/ ~Truthy(password)
       THEN LoginRaise("ValueError")
       ELSE LoginGoOn("probe")
    /\ UNCHANGED <<email, password, url, ops, lg_probe, probe_value, probe_faulted>>

\* Mutant of LoginProbe: the result of is_logged_in is ignored.
LoginProbeIgnored ==
    /\ UNCHANGED otherThanLogin
    /\ lg_pc = "probe"
    /\ \E fault \in BOOLEAN :
          /\ probe_value' = is_logged_in(url, fault)
          /\ probe_faulted' = fault
          /\ lg_probe' = is_logged_in(url, fault)
          /\ LoginGoOn("goto")
    /\ UNCHANGED <<email, password, url, ops>>

\* login: `if await self.is_logged_in(): return True`.
LoginProbe ==
    /\ UNCHANGED otherThanLogin
    /\ lg_pc = "probe"
    /\ \E fault \in BOOLEAN :
          LET v == is_logged_in(url, fault)
          IN  /\ probe_value' = v
              /\ probe_faulted' = fault
              /\ lg_probe' = v
              /\ CASE v = "True"  -> LoginReturn("True")
                   [] v = "False" -> LoginGoOn("goto")
                   [] OTHER       -> LoginRaise("Exception")
    /\ UNCHANGED <<email, password, url, ops>>

\* login: page.goto("https://www.linkedin.com/login").
LoginGoto ==
    /\ UNCHANGED otherThanLogin
    /\ lg_pc = "goto"
    /\ ops' = Append(ops, "goto")
    /\ \E ok \in BOOLEAN :
          IF ok
          THEN /\ url' = LoginUrl
               /\ LoginGoOn("fill_email")
          ELSE /\ UNCHANGED url
               /\ LoginRaise("Exception")
    /\ UNCHANGED <<email, password, lg_probe, probe_value, probe_faulted>>

\* login: email_input.fill(email).
LoginFillEmail ==
    /\ UNCHANGED otherThanLogin
    /\ lg_pc = "fill_email"
    /\ ops' = Append(ops, "fill_email")
    /\ \E ok \in BOOLEAN :
          IF ok THEN LoginGoOn("fill_password") ELSE LoginRaise("Exception")
    /\ UNCHANGED <<email, password, url, lg_probe, probe_value, probe_faulted>>

\* login: password_input.fill(password).
LoginFillPassword ==
    /\ UNCHANGED otherThanLogin
    /\ lg_pc = "fill_password"
    /\ ops' = Append(ops, "fill_password")
    /\ \E ok \in BOOLEAN :
          IF ok THEN LoginGoOn("click") ELSE LoginRaise("Exception")
    /\ UNCHANGED <<email, password, url, lg_probe, probe_value, probe_faulted>>

\* login: login_button.click(); the submit takes the page to some address.
LoginClick ==
    /\ UNCHANGED otherThanLogin
    /\ lg_pc = "click"
    /\ ops' = Append(ops, "click")
    /\ \E ok \in BOOLEAN :
          IF ok
          THEN /\ url' \in Urls
               /\ LoginGoOn("wait_for_url")
          ELSE /\ UNCHANGED url
               /\ LoginRaise("Exception")
    /\ UNCHANGED <<email, password, lg_probe, probe_value, probe_faulted>>

\* login: wait_for_url(feed | checkpoint | security-verification, 30 s): met by
\* the address the page is at, by a redirect that arrives in time, or not at
\* all (TimeoutError, raised again as Exception).
LoginWaitForUrl ==
    /\ UNCHANGED otherThanLogin
    /\ lg_pc = "wait_for_url"
    /\ ops' = Append(ops, "wait_for_url")
    /\ IF RedirectSeen(url)
       THEN /\ UNCHANGED url
            /\ LoginGoOn("classify")
       ELSE \/ /\ url' \in {u \in Urls : RedirectSeen(u)}
               /\ LoginGoOn("classify")
            \/ /\ UNCHANGED url
               /\ LoginRaise("Exception")
    /\ UNCHANGED <<email, password, lg_probe, probe_value, probe_faulted>>

\* login: current_url = page.url (the page may have moved on since the wait)
\* and the classification of the address.
LoginClassify ==
    /\ UNCHANGED otherThanLogin
    /\ lg_pc = "classify"
    /\ \E current_url \in {url} \cup Urls :
          /\ url' = current_url
          /\ IF Contains(current_url, "feed")
             THEN LoginReturn("True")
             ELSE IF \/ Contains(current_url, "checkpoint")
                     \/ Contains(current_url, "security-verification")
                  THEN LoginReturn("False")
                  ELSE LoginRaise("Exception")
    /\ UNCHANGED <<email, password, ops, lg_probe, probe_value, probe_faulted>>

NextLogin ==
    \/ IsLoggedInCall
    \/ LoginCall
    \/ LoginProbe
    \/ LoginGoto
    \/ LoginFillEmail
    \/ LoginFillPassword
    \/ LoginClick
    \/ LoginWaitForUrl
    \/ LoginClassify

SpecLogin == InitLogin /\ [][NextLogin]_vars

(***************************************************************************)
(* Claims about LoginPage, checked under SpecLogin.                        *)
(***************************************************************************)
LoginOver == lg_pc \in {"returned", "raised"}

\* C6: with non-empty credentials, when is_logged_in() is true at the time
\* login is called, login returns the authenticated result and issues no page
\* operation: no goto, no fill, no click.
C6_LoginShortCircuit ==
    (LoginOver /\ Truthy(email) /\ Truthy(password) /\ lg_probe = "True") =>
        /\ lg_pc = "returned"
        /\ lg_result = "True"
        /\ ops = <<>>

\* C6 witness: login has returned after finding the page logged in.
C6_Witness ==
    /\ lg_pc = "returned"
    /\ lg_probe = "True"
    /\ Truthy(email) /\ Truthy(password)

C24_NoNavigationOnEmptyCredentials ==
    [][(lg_pc = "idle" /\ lg_pc' # "idle" /\ (~Truthy(email) \/ ~Truthy(password))) =>
          /\ lg_pc' = "raised"
          /\ lg_error' = "ValueError"
          /\ lg_probe' = "none"
          /\ ops' = <<>>
          /\ url' = url]_vars

\* C24 witness: login was called with a password and an empty email, on a page
\* that is at a logged-in address, and has raised ValueError.
C24_Witness ==
    /\ lg_pc = "raised"
    /\ lg_error = "ValueError"
    /\ email = ""
    /\ password = "secret"
    /\ Contains(url, "feed")

\* The address matches the challenge pattern.
ChallengeAddress(u) ==
    \/ Contains(u, "checkpoint")
    \/ Contains(u, "security-verification")

\* login has submitted the form and classified the address the page reached.
Submitted ==
    /\ LoginOver
    /\ Contains(ops, "wait_for_url")

\* C25: when the address reached after the submit matches the challenge
\* pattern, login raises no error and returns the challenge outcome (False),
\* which is neither the authenticated result nor a failure.
C25_ChallengeDistinct ==
    (Submitted /\ ChallengeAddress(url)) =>
        /\ lg_pc = "returned"
        /\ lg_error = "none"
        /\ lg_result = "False"

\* C32: when the address reached after the submit matches the challenge
\* pattern, whether or not it also contains "feed", login does not return the
\* authenticated result (True).
C32_NoAuthenticatedOnChallenge ==
    (Submitted /\ ChallengeAddress(url)) =>
        ~(lg_pc = "returned" /\ lg_result = "True")

(***************************************************************************)
(* LinkedInLoginServer: the session lifecycle (server.py).  _cleanup, and  *)
(* the two constructors of a session, _ensure_browser and                  *)
(* initialize_browser, one action per awaited step.                        *)
(*   cl_pc: "idle", "context", "browser", "playwright", "finally",         *)
(*          "returned", "raised" (the last two: _cleanup is over and its   *)
(*          caller has not resumed yet).                                   *)
(*   es_pc: "idle", "entry" (in the _cleanup of line 134), "start",        *)
(*          "launch", "new_context", "new_page", "page_objects",           *)
(*          "except" (in the _cleanup of the handler), "returned",         *)
(*          "raised".                                                      *)
(***************************************************************************)
InitSession ==
    /\ ScrapeIdle
    /\ LoginIdle
    /\ SessionIdle
    /\ ConnectIdle
    /\ ToolIdle
    /\ ScrollIdle
    /\ MessageIdle

Handle(kind, id) == [kind |-> kind, id |-> id]

\* What closing a handle closes with it: a context its pages, a browser its
\* contexts, the automation engine everything it drives.
ClosedWith(h) ==
    LET kinds == CASE h.kind = "context"    -> {"context", "page"}
                   [] h.kind = "browser"    -> {"browser", "context", "page"}
                   [] h.kind = "playwright" -> {"playwright", "browser", "context", "page"}
                   [] OTHER                 -> {}
    IN  {x \in live : x.id = h.id /\ x.kind \in kinds}

\* No session operation and no tool handler is running: the server is between
\* two of them.
AtTop ==
    /\ th_pc \in {"idle", "returned", "raised"}
    /\ es_pc \in {"idle", "returned", "raised"}
    /\ \/ cl_pc = "idle"
       \/ cl_pc \in {"returned", "raised"} /\ cl_ret = "top"

\* Entry of _cleanup, called from `ret`.
CleanupEnter(ret) ==
    /\ cl_pc' = "context"
    /\ cl_ret' = ret
    /\ cl_exc' = FALSE
    /\ cl_start' = [playwright |-> playwright, browser |-> browser, context |-> context]
    /\ closes' = <<>>

\* _cleanup called by a tool handler, by run's finally or directly.
CleanupCall ==
    /\ UNCHANGED otherThanSession
    /\ AtTop
    /\ calls < MaxCalls
    /\ calls' = calls + 1
    /\ CleanupEnter("top")
    /\ es_pc' = "idle"
    /\ UNCHANGED <<fieldVars, live, next_id, es_fn>>

\* Mutant of ShouldClose: the close is invoked whatever the field holds.
ShouldCloseAlways(field) == TRUE

\* `if self.context:` and its like: a handle is truthy, None is not.
ShouldClose(field) == field # Nil

\* A close operation raised: control passes to the finally block.
CloseRaised ==
    /\ cl_pc' = "finally"
    /\ cl_exc' = TRUE
    /\ UNCHANGED live

\* One statement of _cleanup's try block: `if self.f: await self.f.close()`.
\* The close may fault; invoked on None it raises AttributeError.
CloseStep(field, kind, next) ==
    IF ShouldClose(field)
    THEN /\ closes' = Append(closes, kind)
         /\ IF field = Nil
            THEN CloseRaised
            ELSE \E ok \in BOOLEAN :
                    IF ok
                    THEN /\ live' = live \ ClosedWith(field)
                         /\ cl_pc' = next
                         /\ UNCHANGED cl_exc
                    ELSE CloseRaised
    ELSE /\ cl_pc' = next
         /\ UNCHANGED <<closes, live, cl_exc>>

CleanupContext ==
    /\ UNCHANGED otherThanSession
    /\ cl_pc = "context"
    /\ CloseStep(context, "context", "browser")
    /\ UNCHANGED <<fieldVars, next_id, calls, es_pc, es_fn, cl_ret, cl_start>>

CleanupBrowser ==
    /\ UNCHANGED otherThanSession
    /\ cl_pc = "browser"
    /\ CloseStep(browser, "browser", "playwright")
    /\ UNCHANGED <<fieldVars, next_id, calls, es_pc, es_fn, cl_ret, cl_start>>

CleanupPlaywright ==
    /\ UNCHANGED otherThanSession
    /\ cl_pc = "playwright"
    /\ CloseStep(playwright, "playwright", "finally")
    /\ UNCHANGED <<fieldVars, next_id, calls, es_pc, es_fn, cl_ret, cl_start>>

ResetFields ==
    /\ playwright' = Nil
    /\ browser' = Nil
    /\ context' = Nil
    /\ page' = Nil
    /\ login_page' = Nil
    /\ profile_page' = Nil

\* Mutant of CleanupFinally: the fields are reset after the try block, not in
\* a finally block, so not when a close raised.
CleanupResetAfterTry ==
    /\ UNCHANGED otherThanSession
    /\ cl_pc = "finally"
    /\ IF cl_exc THEN UNCHANGED fieldVars ELSE ResetFields
    /\ cl_pc' = IF cl_exc THEN "raised" ELSE "returned"
    /\ UNCHANGED <<live, next_id, calls, es_pc, es_fn, cl_ret, cl_exc, cl_start, closes>>

\* _cleanup's finally block, then its return or the exception going on upward.
CleanupFinally ==
    /\ UNCHANGED otherThanSession
    /\ cl_pc = "finally"
    /\ ResetFields
    /\ cl_pc' = IF cl_exc THEN "raised" ELSE "returned"
    /\ UNCHANGED <<live, next_id, calls, es_pc, es_fn, cl_ret, cl_exc, cl_start, closes>>

\* _ensure_browser, entry: `await self._cleanup()` ahead of the try block.
EnsureBrowserCall ==
    /\ UNCHANGED otherThanSession
    /\ AtTop
    /\ calls < MaxCalls
    /\ calls' = calls + 1
    /\ es_fn' = "_ensure_browser"
    /\ es_pc' = "entry"
    /\ CleanupEnter("entry")
    /\ UNCHANGED <<fieldVars, live, next_id>>

\* _ensure_browser resumes after the _cleanup of its entry: on to the try block,
\* or out with the exception _cleanup raised.
EnsureAfterEntryCleanup ==
    /\ UNCHANGED otherThanSession
    /\ es_pc = "entry"
    /\ cl_pc \in {"returned", "raised"}
    /\ cl_pc' = "idle"
    /\ es_pc' = IF cl_pc = "returned" THEN "start" ELSE "raised"
    /\ UNCHANGED <<fieldVars, live, next_id, calls, es_fn, cl_ret, cl_exc, cl_start, closes>>

\* initialize_browser, entry: straight into the try block.
InitializeBrowserCall ==
    /\ UNCHANGED otherThanSession
    /\ AtTop
    /\ calls < MaxCalls
    /\ calls' = calls + 1
    /\ es_fn' = "initialize_browser"
    /\ es_pc' = "start"
    /\ cl_pc' = "idle"
    /\ UNCHANGED <<fieldVars, live, next_id, cl_ret, cl_exc, cl_start, closes>>

\* Mutant of ConstructionFaulted: the failure is raised with the session as the
\* try block left it.
ConstructionFaultedNoCleanup ==
    /\ es_pc' = "raised"
    /\ UNCHANGED <<fieldVars, live, next_id, cl_pc, cl_ret, cl_exc, cl_start, closes>>

\* A step of the try block faulted: into the except handler, which calls _cleanup.
ConstructionFaulted ==
    /\ es_pc' = "except"
    /\ CleanupEnter("except")
    /\ UNCHANGED <<fieldVars, live, next_id>>

\* async_playwright().start()
SessionStart ==
    /\ UNCHANGED otherThanSession
    /\ es_pc = "start"
    /\ \E ok \in BOOLEAN :
          IF ok
          THEN /\ playwright' = Handle("playwright", next_id)
               /\ live' = live \cup {Handle("playwright", next_id)}
               /\ next_id' = next_id + 1
               /\ es_pc' = "launch"
               /\ UNCHANGED <<browser, context, page, login_page, profile_page,
                              cl_pc, cl_ret, cl_exc, cl_start, closes>>
          ELSE ConstructionFaulted
    /\ UNCHANGED <<calls, es_fn>>

\* playwright.chromium.launch(...)
SessionLaunch ==
    /\ UNCHANGED otherThanSession
    /\ es_pc = "launch"
    /\ \E ok \in BOOLEAN :
          IF ok
          THEN /\ browser' = Handle("browser", playwright.id)
               /\ live' = live \cup {Handle("browser", playwright.id)}
               /\ es_pc' = "new_context"
               /\ UNCHANGED <<playwright, context, page, login_page, profile_page,
                              next_id, cl_pc, cl_ret, cl_exc, cl_start, closes>>
          ELSE ConstructionFaulted
    /\ UNCHANGED <<calls, es_fn>>

\* browser.new_context(...)
SessionNewContext ==
    /\ UNCHANGED otherThanSession
    /\ es_pc = "new_context"
    /\ \E ok \in BOOLEAN :
          IF ok
          THEN /\ context' = Handle("context", browser.id)
               /\ live' = live \cup {Handle("context", browser.id)}
               /\ es_pc' = "new_page"
               /\ UNCHANGED <<playwright, browser, page, login_page, profile_page,
                              next_id, cl_pc, cl_ret, cl_exc, cl_start, closes>>
          ELSE ConstructionFaulted
    /\ UNCHANGED <<calls, es_fn>>

\* context.new_page()
SessionNewPage ==
    /\ UNCHANGED otherThanSession
    /\ es_pc = "new_page"
    /\ \E ok \in BOOLEAN :
          IF ok
          THEN /\ page' = Handle("page", context.id)
               /\ live' = live \cup {Handle("page", context.id)}
               /\ es_pc' = "page_objects"
               /\ UNCHANGED <<playwright, browser, context, login_page, profile_page,
                              next_id, cl_pc, cl_ret, cl_exc, cl_start, closes>>
          ELSE ConstructionFaulted
    /\ UNCHANGED <<calls, es_fn>>

\* LoginPage(self.page) and, in _ensure_browser only, ProfilePage(self.page);
\* return True.
SessionPageObjects ==
    /\ UNCHANGED otherThanSession
    /\ es_pc = "page_objects"
    /\ login_page' = Handle("LoginPage", page.id)
    /\ profile_page' = IF es_fn = "_ensure_browser"
                       THEN Handle("ProfilePage", page.id)
                       ELSE profile_page
    /\ es_pc' = "returned"
    /\ UNCHANGED <<playwright, browser, context, page, live, next_id, calls, es_fn,
                   cl_pc, cl_ret, cl_exc, cl_start, closes>>

\* The except handler resumes after its _cleanup and raises: the wrapped
\* failure, or the exception _cleanup raised.
SessionAfterExceptCleanup ==
    /\ UNCHANGED otherThanSession
    /\ es_pc = "except"
    /\ cl_pc \in {"returned", "raised"}
    /\ cl_pc' = "idle"
    /\ es_pc' = "raised"
    /\ UNCHANGED <<fieldVars, live, next_id, calls, es_fn, cl_ret, cl_exc, cl_start, closes>>

NextSession ==
    \/ CleanupCall
    \/ CleanupContext
    \/ CleanupBrowser
    \/ CleanupPlaywright
    \/ CleanupFinally
    \/ EnsureBrowserCall
    \/ EnsureAfterEntryCleanup
    \/ InitializeBrowserCall
    \/ SessionStart
    \/ SessionLaunch
    \/ SessionNewContext
    \/ SessionNewPage
    \/ SessionPageObjects
    \/ SessionAfterExceptCleanup

SpecSession == InitSession /\ [][NextSession]_vars

(***************************************************************************)
(* Claims about _cleanup, checked under SpecSession.                       *)
(***************************************************************************)
CleanupOver == cl_pc \in {"returned", "raised"}

NothingOpenAtStart ==
    /\ cl_start.context = Nil
    /\ cl_start.browser = Nil
    /\ cl_start.playwright = Nil

\* C8: _cleanup called when nothing is open invokes no close operation, raises
\* no error and leaves every session field cleared.
C8_ReleaseIdempotent ==
    (CleanupOver /\ NothingOpenAtStart) =>
        /\ closes = <<>>
        /\ cl_pc = "returned"
        /\ SessionClosed

\* C8 witness: after a session was constructed and released, a further call of
\* _cleanup by the server, with nothing open, is over.
C8_Witness ==
    /\ CleanupOver
    /\ cl_ret = "top"
    /\ NothingOpenAtStart
    /\ next_id > 1
    /\ calls >= 2

\* C9: a failure while closing one handle does not keep _cleanup from
\* attempting the close of each other handle that was open.
C9_BestEffortClose ==
    CleanupOver =>
        /\ cl_start.context # Nil => Contains(closes, "context")
        /\ cl_start.browser # Nil => Contains(closes, "browser")
        /\ cl_start.playwright # Nil => Contains(closes, "playwright")

\* C10: once _cleanup is over, by a return or by an exception of a close
\* step, the six session fields are cleared.
C10_ClosedAfterCleanup == CleanupOver => SessionClosed

\* C10 witness: _cleanup is over by an exception a close step raised on an
\* open session.
C10_Witness ==
    /\ cl_pc = "raised"
    /\ cl_start.context # Nil
    /\ closes # <<>>
    /\ SessionClosed

\* _cleanup found the context, the browser and the automation engine open.
AllOpenAtStart ==
    /\ cl_start.context # Nil
    /\ cl_start.browser # Nil
    /\ cl_start.playwright # Nil

\* C11: _cleanup on an open session closes all three handles, and in the
\* order context, browser, automation engine.
C11_CloseOrder ==
    (CleanupOver /\ AllOpenAtStart) =>
        closes = <<"context", "browser", "playwright">>

\* The browsers opened and not yet closed.
LiveBrowsers == {h \in live : h.kind = "browser"}

\* C12: at no time is more than one browser open and not yet closed.
C12_AtMostOneSession == Cardinality(LiveBrowsers) <= 1

\* _ensure_browser has raised the failure of a step of its try block.
ConstructionFailed ==
    /\ es_fn = "_ensure_browser"
    /\ es_pc = "raised"
    /\ cl_ret = "except"

\* The handles of the session whose construction the unwind released: the
\* fields hold nothing but that session when the except handler runs _cleanup.
LeakedByConstruction ==
    IF cl_start.playwright = Nil THEN {}
    ELSE {h \in live : h.id = cl_start.playwright.id}

\* C13: when a step of _ensure_browser's construction fails, the failure
\* reaches the caller, every handle the construction had opened is closed and
\* the session fields are cleared.
C13_NoLeakOnFailure ==
    ConstructionFailed =>
        /\ LeakedByConstruction = {}
        /\ SessionClosed

(***************************************************************************)
(* The tool handlers (server.py): _handle_call_tool with                   *)
(* _handle_scrape_posts and _handle_send_connections, one action per       *)
(* awaited step.  The session is constructed and released by the actions   *)
(* of the session lifecycle above; the scrape and the connection loop are  *)
(* modelled step by step under SpecScrape and SpecConnect and appear here  *)
(* by their outcome (returned, or raised into the handler's except         *)
(* clause).                                                                *)
(*   th_pc: "idle", "validate", "ensure" (in _ensure_browser), "probe",    *)
(*          "login", "operation", "cleanup" (in the _cleanup of line 220), *)
(*          "except_cleanup" (line 225), "finally_cleanup" (line 382),     *)
(*          "returned", "raised".                                          *)
(*   th_log: "acquire" (_ensure_browser returned), "held" (the handles     *)
(*          were there), "probe_true"/"probe_false" (is_logged_in),        *)
(*          "login_true"/"login_false"/"login_raised" (login), "operation" *)
(*          (the scrape; the search navigation and the loop), "release"    *)
(*          (a call of _cleanup).                                          *)
(***************************************************************************)
Tools == {"scrape_posts", "send_connections"}

\* The tool names a client may send: the two tools, and two that the dispatch
\* does not know.
ToolNames == Tools \cup {"login", "check_login_status"}

\* What LoginPage.login does for its caller: True, False (a checkpoint) or an
\* exception; the credentials of the environment are never empty.
LoginOutcomes == {"True", "False", "Exception"}

Success == [success |-> "True", error |-> "none"]

Failure(msg) == [success |-> "False", error |-> msg]

clVars == <<cl_pc, cl_ret, cl_exc, cl_start, closes>>

\* The handler takes the steps `steps`.
Logged(steps) == th_log' = th_log \o steps

InitTool ==
    /\ ScrapeIdle
    /\ LoginIdle
    /\ SessionIdle
    /\ ConnectIdle
    /\ ToolIdle
    /\ ScrollIdle
    /\ MessageIdle

\* `await self._cleanup()` in a handler.
ToolCleanup(next) ==
    /\ th_pc' = next
    /\ CleanupEnter("tool")

\* The next statement of the handler, no exception in flight.
ToolGoOn(next) ==
    /\ th_pc' = next
    /\ UNCHANGED <<th_exc, th_result, clVars>>

\* Mutant of ToolExcept: the except clause builds the error result and leaves
\* the session as it is.
ToolExceptNoCleanup(msg) ==
    /\ th_exc' = msg
    /\ th_result' = Failure(msg)
    /\ th_pc' = "returned"
    /\ UNCHANGED clVars

\* An exception reaches the handler's `except Exception as e`.  In
\* _handle_scrape_posts the clause calls _cleanup and then returns the error
\* result; in _handle_send_connections it returns the error result and the
\* finally clause calls _cleanup.
ToolExcept(msg) ==
    /\ th_exc' = msg
    /\ IF th_tool = "scrape_posts"
       THEN /\ th_result' = NoResult
            /\ ToolCleanup("except_cleanup")
       ELSE /\ th_result' = Failure(msg)
            /\ ToolCleanup("finally_cleanup")

\* _handle_call_tool: the dispatch on the tool name.  The raise statement of
\* the unknown-name branch ends in a TypeError: McpError is the data model
\* ErrorData, which takes no positional arguments and is no exception class.
CallTool ==
    /\ AtTop
    /\ calls < MaxCalls
    /\ calls' = calls + 1
    /\ \E name \in ToolNames :
          /\ th_tool' = name
          /\ th_pc' = IF name \in Tools THEN "validate" ELSE "raised"
          /\ th_exc' = IF name \in Tools THEN "none" ELSE "TypeError"
    /\ th_result' = NoResult
    /\ th_log' = <<>>
    /\ es_pc' = "idle"
    /\ cl_pc' = "idle"
    /\ UNCHANGED <<fieldVars, live, next_id, es_fn, cl_ret, cl_exc, cl_start, closes>>

\* _handle_call_tool, called on its own.
HandleCallTool ==
    /\ UNCHANGED otherThanTool
    /\ CallTool

\* The input model is built from the arguments (or raises), then
\* `if not self.page or not self.context or not self.browser:
\*      await self._ensure_browser()`.
ToolValidate ==
    /\ UNCHANGED otherThanTool
    /\ th_pc = "validate"
    /\ \E valid \in BOOLEAN :
          IF ~valid
          THEN /\ ToolExcept("validation error")
               /\ Logged(<<"release">>)
               /\ UNCHANGED <<es_pc, es_fn>>
          ELSE IF page = Nil \/ context = Nil \/ browser = Nil
               THEN /\ th_pc' = "ensure"
                    /\ es_fn' = "_ensure_browser"
                    /\ es_pc' = "entry"
                    /\ CleanupEnter("entry")
                    /\ UNCHANGED <<th_exc, th_result, th_log>>
               ELSE /\ ToolGoOn("probe")
                    /\ Logged(<<"held">>)
                    /\ UNCHANGED <<es_pc, es_fn>>
    /\ UNCHANGED <<th_tool, fieldVars, live, next_id, calls>>

\* _ensure_browser is over: it returned True, or raised.
ToolAfterEnsure ==
    /\ UNCHANGED otherThanTool
    /\ th_pc = "ensure"
    /\ es_pc \in {"returned", "raised"}
    /\ IF es_pc = "returned"
       THEN /\ ToolGoOn("probe")
            /\ Logged(<<"acquire">>)
       ELSE /\ ToolExcept("Browser initialization failed")
            /\ Logged(<<"release">>)
    /\ es_pc' = "idle"
    /\ UNCHANGED <<th_tool, fieldVars, live, next_id, calls, es_fn>>

\* `if not await self.login_page.is_logged_in():`
ToolProbe ==
    /\ UNCHANGED otherThanTool
    /\ th_pc = "probe"
    /\ IF login_page = Nil
       THEN /\ ToolExcept("'NoneType' object has no attribute 'is_logged_in'")
            /\ Logged(<<"release">>)
       ELSE \E u \in Urls, fault \in BOOLEAN :
               IF is_logged_in(u, fault) = "True"
               THEN /\ ToolGoOn("operation")
                    /\ Logged(<<"probe_true">>)
               ELSE /\ ToolGoOn("login")
                    /\ Logged(<<"probe_false">>)
    /\ UNCHANGED <<th_tool, fieldVars, live, next_id, calls, es_pc, es_fn>>

\* Mutant of ToolLogin: the handler goes on to the operation when login
\* returned False.
ToolLoginIgnoringResult ==
    /\ UNCHANGED otherThanTool
    /\ th_pc = "login"
    /\ \E outcome \in LoginOutcomes :
          CASE outcome = "True"  -> /\ ToolGoOn("operation")
                                    /\ Logged(<<"login_true">>)
            [] outcome = "False" -> /\ ToolGoOn("operation")
                                    /\ Logged(<<"login_false">>)
            [] OTHER             -> /\ ToolExcept("login error")
                                    /\ Logged(<<"login_raised", "release">>)
    /\ UNCHANGED <<th_tool, fieldVars, live, next_id, calls, es_pc, es_fn>>

\* `login_success = await self.login_page.login(...)`, and the raise when it
\* is false.
ToolLogin ==
    /\ UNCHANGED otherThanTool
    /\ th_pc = "login"
    /\ \E outcome \in LoginOutcomes :
          CASE outcome = "True"  -> /\ ToolGoOn("operation")
                                    /\ Logged(<<"login_true">>)
            [] outcome = "False" -> /\ ToolExcept("Failed to log in to LinkedIn")
                                    /\ Logged(<<"login_false", "release">>)
            [] OTHER             -> /\ ToolExcept("login error")
                                    /\ Logged(<<"login_raised", "release">>)
    /\ UNCHANGED <<th_tool, fieldVars, live, next_id, calls, es_pc, es_fn>>

\* _handle_scrape_posts: the scrape, the success result, then _cleanup.
ToolScrape ==
    /\ UNCHANGED otherThanTool
    /\ th_pc = "operation"
    /\ th_tool = "scrape_posts"
    /\ IF profile_page = Nil
       THEN /\ ToolExcept("'NoneType' object has no attribute 'scrape_linkedin_posts'")
            /\ Logged(<<"release">>)
       ELSE /\ th_result' = Success
            /\ ToolCleanup("cleanup")
            /\ Logged(<<"operation", "release">>)
            /\ UNCHANGED th_exc
    /\ UNCHANGED <<th_tool, fieldVars, live, next_id, calls, es_pc, es_fn>>

\* _handle_send_connections: the search and the connection loop; it returns the
\* success result, or a step outside the per-button try raises.  The finally
\* clause follows either way.
ToolSendConnections ==
    /\ UNCHANGED otherThanTool
    /\ th_pc = "operation"
    /\ th_tool = "send_connections"
    /\ \E returned \in BOOLEAN :
          IF returned
          THEN /\ th_result' = Success
               /\ ToolCleanup("finally_cleanup")
               /\ UNCHANGED th_exc
          ELSE ToolExcept("operation error")
    /\ Logged(<<"operation", "release">>)
    /\ UNCHANGED <<th_tool, fieldVars, live, next_id, calls, es_pc, es_fn>>

\* _handle_scrape_posts after the _cleanup of line 220: `return result`, or
\* the exception of _cleanup, raised inside the try block, reaches the except
\* clause.
ScrapeAfterCleanup ==
    /\ UNCHANGED otherThanTool
    /\ th_pc = "cleanup"
    /\ cl_pc \in {"returned", "raised"}
    /\ IF cl_pc = "returned"
       THEN /\ th_pc' = "returned"
            /\ cl_pc' = "idle"
            /\ UNCHANGED <<th_exc, th_result, th_log, cl_ret, cl_exc, cl_start, closes>>
       ELSE /\ ToolExcept("close error")
            /\ Logged(<<"release">>)
    /\ UNCHANGED <<th_tool, fieldVars, live, next_id, calls, es_pc, es_fn>>

\* _handle_scrape_posts after the _cleanup of its except clause: the error
\* result is returned, or the exception of _cleanup leaves the handler.
ScrapeAfterExceptCleanup ==
    /\ UNCHANGED otherThanTool
    /\ th_pc = "except_cleanup"
    /\ cl_pc \in {"returned", "raised"}
    /\ IF cl_pc = "returned"
       THEN /\ th_pc' = "returned"
            /\ th_result' = Failure(th_exc)
       ELSE /\ th_pc' = "raised"
            /\ th_result' = NoResult
    /\ cl_pc' = "idle"
    /\ UNCHANGED <<th_tool, th_exc, th_log, fieldVars, live, next_id, calls, es_pc, es_fn,
                   cl_ret, cl_exc, cl_start, closes>>

\* _handle_send_connections after the _cleanup of its finally clause: the
\* pending return takes place, or the exception of _cleanup replaces it.
SendAfterFinallyCleanup ==
    /\ UNCHANGED otherThanTool
    /\ th_pc = "finally_cleanup"
    /\ cl_pc \in {"returned", "raised"}
    /\ IF cl_pc = "returned"
       THEN /\ th_pc' = "returned"
            /\ UNCHANGED th_result
       ELSE /\ th_pc' = "raised"
            /\ th_result' = NoResult
    /\ cl_pc' = "idle"
    /\ UNCHANGED <<th_tool, th_exc, th_log, fieldVars, live, next_id, calls, es_pc, es_fn,
                   cl_ret, cl_exc, cl_start, closes>>

NextTool ==
    \/ HandleCallTool
    \/ ToolValidate
    \/ ToolAfterEnsure
    \/ ToolProbe
    \/ ToolLogin
    \/ ToolScrape
    \/ ToolSendConnections
    \/ ScrapeAfterCleanup
    \/ ScrapeAfterExceptCleanup
    \/ SendAfterFinallyCleanup
    \/ InitializeBrowserCall
    \/ EnsureAfterEntryCleanup
    \/ SessionStart
    \/ SessionLaunch
    \/ SessionNewContext
    \/ SessionNewPage
    \/ SessionPageObjects
    \/ SessionAfterExceptCleanup
    \/ CleanupContext
    \/ CleanupBrowser
    \/ CleanupPlaywright
    \/ CleanupFinally

SpecTool == InitTool /\ [][NextTool]_vars

(***************************************************************************)
(* Claims about the tool handlers, checked under SpecTool.                 *)
(***************************************************************************)
\* A call of one of the two tools is over, by a return or by an exception, and
\* the server has started nothing since.
ToolOver ==
    /\ th_tool \in Tools
    /\ th_pc \in {"returned", "raised"}
    /\ es_pc = "idle"

\* C14: whenever _handle_scrape_posts or _handle_send_connections is over, by
\* a success result, an error result or an exception, every session field is
\* cleared.
C14_ReleasedOnEveryExit == ToolOver => SessionClosed

\* C14 witness: a tool call that constructed a session and failed after it (at
\* the login or in the operation) has returned its error result.
C14_Witness ==
    /\ ToolOver
    /\ th_pc = "returned"
    /\ th_result.success = "False"
    /\ th_exc \in {"Failed to log in to LinkedIn", "login error", "operation error"}
    /\ AllOpenAtStart

\* C20: every call of the two tools ends by returning a payload with success
\* true or false and, when false, an error string; none ends by an exception.
C20_StructuredResult ==
    ToolOver =>
        /\ th_pc = "returned"
        /\ th_result.success \in {"True", "False"}
        /\ th_result.success = "False" => th_result.error # "none"

\* C23: a tool call in which LoginPage.login raised ends by returning a payload
\* with success false whose error is the message of that exception, and no
\* scrape and no search navigation or connect click took place in the call.
C23_LoginFailureReported ==
    (ToolOver /\ Contains(th_log, "login_raised")) =>
        /\ th_pc = "returned"
        /\ th_result = Failure("login error")
        /\ ~Contains(th_log, "operation")

\* No _ensure_browser, initialize_browser or _cleanup is in progress.
NoSessionOperation ==
    /\ es_pc \in {"idle", "returned", "raised"}
    /\ cl_pc \in {"idle", "returned", "raised"}

SessionHandles == {playwright, browser, context, page}

StepsOf(step) == {k \in 1..Len(th_log) : th_log[k] = step}

\* C27: in a scrape_posts or send_connections call the operation comes after
\* the session was acquired (or found held) and after an is_logged_in that
\* returned true or a login that returned true, in that order; every release
\* comes after the operation, and a call that is over ends with a release.
C27_StepOrder ==
    th_tool \in Tools =>
        /\ \A k \in StepsOf("operation") :
              \E i, j \in 1..(k - 1) :
                 /\ i < j
                 /\ th_log[i] \in {"acquire", "held"}
                 /\ th_log[j] \in {"probe_true", "login_true"}
        /\ \A k \in StepsOf("operation"), r \in StepsOf("release") : k < r
        /\ \A r \in StepsOf("release"), k \in 1..Len(th_log) :
              k > r => th_log[k] = "release"
        /\ ToolOver => Contains(th_log, "release")

\* C27 witness: a call that logged in, after is_logged_in returned false, has
\* performed its operation and released the session, and is over.
C27_Witness ==
    /\ ToolOver
    /\ th_log = <<"acquire", "probe_false", "login_true", "operation", "release">>

\* The condition under which a tool handler skips _ensure_browser.
SessionInitialised ==
    /\ page # Nil
    /\ context # Nil
    /\ browser # Nil

\* C34: whenever no session operation is in progress and page, context and
\* browser are set, login_page and profile_page are set too, whichever of
\* _ensure_browser and initialize_browser constructed the session.
C34_PageObjectsPresent ==
    (NoSessionOperation /\ SessionInitialised) =>
        /\ login_page # Nil
        /\ profile_page # Nil

\* C35: a scrape_posts call in which scrape_linkedin_posts returned ends by
\* returning the success payload, whatever the close steps of the release did.
C35_ScrapeSurvivesTeardown ==
    (ToolOver /\ th_tool = "scrape_posts" /\ Contains(th_log, "operation")) =>
        /\ th_pc = "returned"
        /\ th_result = Success

(***************************************************************************)
(* _handle_message (server.py): one JSON-RPC message read from the input.  *)
(* A message whose method is tools/call runs the tool handlers above, step *)
(* by step; every other message is handled in one step.                    *)
(*   hm_pc: "idle", "handler" (awaiting _handle_call_tool), "responded"    *)
(*          (a response was printed), "silent" (the handler returned None: *)
(*          nothing is printed), "raised" (an exception left               *)
(*          _handle_message).                                              *)
(***************************************************************************)
\* self._handlers
Handlers ==
    {"initialize", "tools/list", "tools/call", "resources/list",
     "resources/templates/list", "notifications/initialized", "cancelled"}

\* The methods a client may name: those of the table and one that is not.
Methods == Handlers \cup {"invalid_method"}

\* request.get("id"): absent (None) or the id the client chose.
RequestIds == {None, "1", "2"}

\* What a line of input is: a JSON object, a JSON array, or no JSON at all.
MessageKinds == {"object", "array", "invalid"}

MethodNotFound == -32601

InternalError == -32603

\* The tools of _handle_list_tools' result, in order.
ListTools == <<"scrape_posts", "send_connections">>

\* What the handler of `method` returns when it is called with a dict; the
\* keys of the dict it returns, or NoValue for None.
HandlerValue(method) ==
    CASE method = "initialize"               -> <<"protocolVersion", "serverInfo", "capabilities">>
      [] method = "tools/list"               -> ListTools
      [] method = "resources/list"           -> <<"resources">>
      [] method = "resources/templates/list" -> <<"resourceTemplates">>
      [] OTHER                               -> NoValue

\* The handlers that call params.get: they raise AttributeError when params is
\* no dict.
ReadsParams == {"initialize", "tools/call"}

ResultResponse(id, value) == [id |-> id, kind |-> "result", code |-> 0, body |-> value]

ErrorResponse(id, code, message) == [id |-> id, kind |-> "error", code |-> code, body |-> message]

\* Mutant of UnknownMethod: the error response leaves the request's id out.
UnknownMethodNoId(id, method) ==
    ErrorResponse(None, MethodNotFound, <<"Unknown method", method>>)

\* The response to a method that is not in the table.
UnknownMethod(id, method) ==
    ErrorResponse(id, MethodNotFound, <<"Unknown method", method>>)

\* print(json.dumps(response)).
Respond(response) ==
    /\ hm_response' = response
    /\ hm_pc' = "responded"

\* The message is handled without a tool call: the session and the tool
\* handlers are left as they are.
NoToolCall ==
    /\ calls' = calls + 1
    /\ UNCHANGED <<toolVars, fieldVars, live, next_id, es_pc, es_fn, clVars>>

InitMessage ==
    /\ ScrapeIdle
    /\ LoginIdle
    /\ SessionIdle
    /\ ConnectIdle
    /\ ToolIdle
    /\ ScrollIdle
    /\ MessageIdle

\* _handle_message up to the response, or up to the call of the tool handler.
HandleMessage ==
    /\ UNCHANGED otherThanMessage
    /\ hm_pc \in {"idle", "responded", "silent"}
    /\ calls < MaxMessages
    /\ \E kind \in MessageKinds, id \in RequestIds, method \in Methods, params_ok \in BOOLEAN :
          CASE kind = "invalid" ->
                 \* json.loads raises: `request` is not bound, the id is None
                 /\ hm_id' = None
                 /\ hm_method' = None
                 /\ hm_invoked' = <<>>
                 /\ hm_value' = NoValue
                 /\ Respond(ErrorResponse(None, InternalError, <<"JSONDecodeError">>))
                 /\ NoToolCall
            [] kind = "array" ->
                 \* request.get raises in the try block and again in the
                 \* except clause
                 /\ hm_id' = None
                 /\ hm_method' = None
                 /\ hm_invoked' = <<>>
                 /\ hm_value' = NoValue
                 /\ hm_response' = NoResponse
                 /\ hm_pc' = "raised"
                 /\ NoToolCall
            [] OTHER ->
                 /\ hm_id' = id
                 /\ hm_method' = method
                 /\ IF method \notin Handlers
                    THEN /\ hm_invoked' = <<>>
                         /\ hm_value' = NoValue
                         /\ Respond(UnknownMethod(id, method))
                         /\ NoToolCall
                    ELSE /\ hm_invoked' = <<method>>
                         /\ IF method \in ReadsParams /\ ~params_ok
                            THEN /\ hm_value' = NoValue
                                 /\ Respond(ErrorResponse(id, InternalError, <<"AttributeError">>))
                                 /\ NoToolCall
                            ELSE IF method = "tools/call"
                                 THEN /\ hm_value' = NoValue
                                      /\ hm_response' = NoResponse
                                      /\ hm_pc' = "handler"
                                      /\ CallTool
                                 ELSE /\ hm_value' = HandlerValue(method)
                                      /\ IF HandlerValue(method) = NoValue
                                         THEN /\ hm_response' = NoResponse
                                              /\ hm_pc' = "silent"
                                         ELSE Respond(ResultResponse(id, HandlerValue(method)))
                                      /\ NoToolCall

\* _handle_call_tool is over: its payload becomes the result of the response,
\* or its exception reaches _handle_message's except clause.
MessageAfterHandler ==
    /\ UNCHANGED otherThanMessage
    /\ hm_pc = "handler"
    /\ th_pc \in {"returned", "raised"}
    /\ IF th_pc = "returned"
       THEN /\ hm_value' = <<"success", th_result.success>>
            /\ Respond(ResultResponse(hm_id, <<"success", th_result.success>>))
       ELSE /\ hm_value' = NoValue
            /\ Respond(ErrorResponse(hm_id, InternalError,
                                     <<IF th_tool \in Tools THEN "close error" ELSE th_exc>>))
    /\ UNCHANGED <<hm_id, hm_method, hm_invoked, toolVars, sessionVars>>

NextMessage ==
    \/ HandleMessage
    \/ MessageAfterHandler
    \/ ToolValidate
    \/ ToolAfterEnsure
    \/ ToolProbe
    \/ ToolLogin
    \/ ToolScrape
    \/ ToolSendConnections
    \/ ScrapeAfterCleanup
    \/ ScrapeAfterExceptCleanup
    \/ SendAfterFinallyCleanup
    \/ EnsureAfterEntryCleanup
    \/ SessionStart
    \/ SessionLaunch
    \/ SessionNewContext
    \/ SessionNewPage
    \/ SessionPageObjects
    \/ SessionAfterExceptCleanup
    \/ CleanupContext
    \/ CleanupBrowser
    \/ CleanupPlaywright
    \/ CleanupFinally

SpecMessage == InitMessage /\ [][NextMessage]_vars

(***************************************************************************)
(* Claims about the message layer, checked under SpecMessage.              *)
(***************************************************************************)
\* The tools of the declared tool surface.
DeclaredTools == {"login", "check_login_status", "scrape_posts", "send_connections"}

\* C21: the result of tools/list names the tools login and check_login_status,
\* and a tools/call that names a tool of the declared surface is not rejected
\* by the unknown-tool branch of the dispatch.
C21_ToolSurface ==
    /\ (hm_method = "tools/list" /\ hm_pc = "responded") =>
          /\ Contains(hm_response.body, "login")
          /\ Contains(hm_response.body, "check_login_status")
    /\ (hm_method = "tools/call" /\ hm_pc \in {"handler", "responded"}
          /\ th_tool \in DeclaredTools) =>
          th_exc # "TypeError"

\* A step that ends the handling of a message.
MessageEnds ==
    /\ hm_pc' \in {"responded", "silent"}
    /\ hm_pc = "handler" \/ calls' = calls + 1

\* C22: a message whose handler returned a value is answered with that value
\* under result and the id of the request; a message whose method is not in
\* the table is answered with the error -32601, a message containing "Unknown
\* method" and the id of the request, in a step that calls no handler and
\* leaves the session as it was; and every message that names a method, a
\* notification method apart, is answered with a response carrying its id.
C22_EveryRequestAnswered ==
    [][MessageEnds =>
        /\ hm_value' # NoValue =>
              hm_response' = [id |-> hm_id', kind |-> "result", code |-> 0, body |-> hm_value']
        /\ (hm_method' # None /\ hm_method' \notin Handlers) =>
              /\ hm_response'.id = hm_id'
              /\ hm_response'.kind = "error"
              /\ hm_response'.code = -32601
              /\ Contains(hm_response'.body, "Unknown method")
              /\ hm_invoked' = <<>>
              /\ UNCHANGED <<fieldVars, live, next_id, toolVars>>
        /\ (hm_method' # None /\ hm_method' \notin {"notifications/initialized", "cancelled"}) =>
              /\ hm_pc' = "responded"
              /\ hm_response'.kind \in {"result", "error"}
              /\ hm_response'.id = hm_id']_vars

\* C22 witness: after a tool call was answered with its result, a request with
\* an id and a method that is not in the table has been answered with the
\* error -32601.
C22_Witness ==
    /\ hm_pc = "responded"
    /\ hm_method = "invalid_method"
    /\ hm_id = "2"
    /\ hm_response = ErrorResponse("2", -32601, <<"Unknown method", "invalid_method">>)
    /\ th_pc = "returned"
    /\ th_result.success = "True"

(***************************************************************************)
(* The connection-request loops: the loop of the tool handler              *)
(* _handle_send_connections (server.py, from `sent_requests = 0` on) and   *)
(* SearchPage.send_connection_requests (search_page.py, after the          *)
(* navigation to the search).  One action per iteration of the page loop,  *)
(* per connect button, and per end of a page.                              *)
(*   cn_pc: "idle", "page" (head of the page loop), "button" (head of the  *)
(*          button loop), "next" (after the button loop), "returned",      *)
(*          "failed" (the handler's outer except: success False; the       *)
(*          method's outer except: raise).                                 *)
(***************************************************************************)
\* range(min(max_connections, 3)): the page loop runs at most 3 times.
PageLimit == 3

Smaller(a, b) == IF a < b THEN a ELSE b

\* The cards an extraction yields: a name found, or the 'Unknown Profile' of a
\* result item without a name element.
Cards ==
    { [state |-> "card", name |-> "Ann", title |-> "CEO"],
      [state |-> "card", name |-> "Unknown Profile", title |-> ""] }

\* Note templates, part by part: none, plain text, the placeholders the code
\* passes to format, a placeholder it does not pass, an unclosed brace, a
\* positional placeholder.
Notes ==
    { <<>>,
      <<"Hi">>,
      <<"Hi ", "{name}", " ", "{title}", "{location}">>,
      <<"Hi ", "{name}", "{unknown_field}">>,
      <<"Hi ", "{name}", "{">>,
      <<"Hi ", "{0}">> }

\* str.format(name=..., title=..., location=...) on one part of a template.
FormatPart(part, info) ==
    CASE part = "{name}"          -> [error |-> "none", text |-> info.name]
      [] part = "{title}"         -> [error |-> "none", text |-> info.title]
      [] part = "{location}"      -> [error |-> "none", text |-> ""]
      [] part = "{unknown_field}" -> [error |-> "KeyError", text |-> ""]
      [] part = "{"               -> [error |-> "ValueError", text |-> ""]
      [] part = "{0}"             -> [error |-> "IndexError", text |-> ""]
      [] OTHER                    -> [error |-> "none", text |-> part]

\* custom_note.format(...): the rendered text, or the first error met.
RECURSIVE FormatNote(_, _)
FormatNote(note, info) ==
    IF note = <<>> THEN [error |-> "none", text |-> <<>>]
    ELSE LET first == FormatPart(Head(note), info)
             rest == FormatNote(Tail(note), info)
         IN  IF first.error # "none" THEN [error |-> first.error, text |-> <<>>]
             ELSE IF rest.error # "none" THEN rest
             ELSE [error |-> "none", text |-> <<first.text>> \o rest.text]

\* The values of max_connections: the input model takes any integer, a
\* negative one too.
Quotas == {-1} \cup (0..MaxConnections)

InitConnect ==
    /\ ScrapeIdle
    /\ LoginIdle
    /\ SessionIdle
    /\ ToolIdle
    /\ ScrollIdle
    /\ MessageIdle
    /\ cn_variant \in {"server", "search_page"}
    /\ cn_pc = "page"
    /\ max_connections \in Quotas
    /\ custom_note \in Notes
    /\ cn_page = 0
    /\ buttons = 0
    /\ cn_b = 1
    /\ cn_shown = 0
    /\ sent_requests = 0
    /\ results = <<>>
    /\ clicks = 0
    /\ profile_card = Unbound
    /\ last_note = <<>>

\* Head of the page loop: the range is used up, or query_selector_all finds the
\* connect buttons of the page (or faults).
ConnectPage ==
    /\ UNCHANGED otherThanConnect
    /\ cn_pc = "page"
    /\ IF cn_page >= Smaller(max_connections, PageLimit)
       THEN /\ cn_pc' = "returned"
            /\ UNCHANGED <<cn_page, buttons, cn_b, cn_shown>>
       ELSE \/ \E n \in 0..(MaxButtons - cn_shown) :
                 /\ buttons' = n
                 /\ cn_shown' = cn_shown + n
                 /\ cn_b' = 1
                 /\ cn_page' = cn_page + 1
                 /\ cn_pc' = "button"
            \/ /\ cn_pc' = "failed"
               /\ UNCHANGED <<cn_page, buttons, cn_b, cn_shown>>
    /\ UNCHANGED <<cn_variant, max_connections, custom_note, sent_requests, results,
                   clicks, profile_card, last_note>>

\* The next button of the inner loop.
NextButton ==
    /\ cn_b' = cn_b + 1
    /\ UNCHANGED cn_pc

\* The handler's `except Exception` of one button: the log line reads
\* profile_card['name'], which itself raises when profile_card is unbound or
\* None; otherwise `continue`.
ServerButtonFault(card) ==
    /\ profile_card' = card
    /\ IF card.state = "card"
       THEN NextButton
       ELSE /\ cn_pc' = "failed"
            /\ UNCHANGED cn_b

\* Mutant of ServerSend: the counter is advanced for a failed send too.
ServerSendCountingAttempts(card, sent) ==
    /\ clicks' = clicks + 1
    /\ IF sent
       THEN /\ results' = Append(results,
                                 [status |-> "success", name |-> card.name, error |-> "none"])
            /\ sent_requests' = sent_requests + 1
            /\ last_note' = IF custom_note # <<>> THEN custom_note ELSE last_note
            /\ profile_card' = card
            /\ NextButton
       ELSE /\ ServerButtonFault(card)
            /\ sent_requests' = sent_requests + 1
            /\ UNCHANGED <<results, last_note>>

\* The handler's send sequence once the connect button has been clicked: the
\* note flow (add a note, fill, send) or the plain send.
ServerSend(card, sent) ==
    /\ clicks' = clicks + 1
    /\ IF sent
       THEN /\ results' = Append(results,
                                 [status |-> "success", name |-> card.name, error |-> "none"])
            /\ sent_requests' = sent_requests + 1
            /\ last_note' = IF custom_note # <<>> THEN custom_note ELSE last_note
            /\ profile_card' = card
            /\ NextButton
       ELSE /\ ServerButtonFault(card)
            /\ UNCHANGED <<results, sent_requests, last_note>>

\* _handle_send_connections: one iteration of `for button in connect_buttons`.
ServerButton ==
    /\ UNCHANGED otherThanConnect
    /\ cn_variant = "server"
    /\ cn_pc = "button"
    /\ IF cn_b > buttons \/ sent_requests >= max_connections
       THEN /\ cn_pc' = "next"
            /\ UNCHANGED <<cn_b, sent_requests, results, clicks, profile_card, last_note>>
       ELSE \/ \* the first evaluate raises
               /\ ServerButtonFault(profile_card)
               /\ UNCHANGED <<sent_requests, results, clicks, last_note>>
            \/ \* the first evaluate yields null, the second raises
               /\ ServerButtonFault(NullCard)
               /\ UNCHANGED <<sent_requests, results, clicks, last_note>>
            \/ \* both yield null: the button is skipped
               /\ profile_card' = NullCard
               /\ NextButton
               /\ UNCHANGED <<sent_requests, results, clicks, last_note>>
            \/ \* a card; the click faults, a later step faults, or all succeed
               \E card \in Cards, clicked \in BOOLEAN, sent \in BOOLEAN :
                  IF clicked
                  THEN ServerSend(card, sent)
                  ELSE /\ clicks' = clicks + 1
                       /\ ServerButtonFault(card)
                       /\ UNCHANGED <<sent_requests, results, last_note>>
    /\ UNCHANGED <<cn_variant, max_connections, custom_note, cn_page, buttons, cn_shown>>

\* The method's `except Exception` of one button: an error result.
SearchButtonError(info, error) ==
    results' = Append(results, [status |-> "error", name |-> info.name, error |-> error])

\* SearchPage.send_connection_requests: one iteration of
\* `for button in connect_buttons[:max_connections]`, with the pause after it.
SearchButton ==
    /\ UNCHANGED otherThanConnect
    /\ cn_variant = "search_page"
    /\ cn_pc = "button"
    /\ IF cn_b > Smaller(buttons, max_connections)
       THEN /\ cn_pc' = "next"
            /\ UNCHANGED <<cn_b, results, clicks, profile_card, last_note>>
       ELSE \E info \in Cards \cup {NullCard}, clicked \in BOOLEAN, sent \in BOOLEAN,
               paused \in BOOLEAN :
               LET formatted ==
                       IF custom_note = <<>> THEN [error |-> "none", text |-> <<>>]
                       ELSE IF info = NullCard
                            THEN [error |-> "AttributeError", text |-> <<>>]
                            ELSE LET f == FormatNote(custom_note, info)
                                 IN  IF f.error \in {"KeyError", "ValueError"}
                                     THEN [error |-> "none", text |-> custom_note]
                                     ELSE f
               IN  /\ profile_card' = info
                   /\ IF formatted.error # "none"
                      THEN /\ SearchButtonError(info, formatted.error)
                           /\ UNCHANGED <<clicks, last_note>>
                      ELSE /\ clicks' = clicks + 1
                           /\ IF clicked /\ sent
                              THEN /\ results' = Append(results,
                                          [status |-> "success", name |-> info.name,
                                           error |-> "none"])
                                   /\ last_note' = IF formatted.text # <<>>
                                                   THEN formatted.text ELSE last_note
                              ELSE /\ SearchButtonError(info, "Exception")
                                   /\ UNCHANGED last_note
                   /\ IF paused
                      THEN NextButton
                      ELSE /\ cn_pc' = "failed"
                           /\ UNCHANGED cn_b
    /\ UNCHANGED <<cn_variant, max_connections, custom_note, cn_page, buttons, cn_shown,
                   sent_requests>>

\* After the button loop: the quota check, then the next-page button.
ConnectNextPage ==
    /\ UNCHANGED otherThanConnect
    /\ cn_pc = "next"
    /\ IF sent_requests >= max_connections
       THEN cn_pc' = "returned"
       ELSE \/ cn_pc' = "page"       \* a next button, clicked
            \/ cn_pc' = "returned"   \* no next button: break
            \/ cn_pc' = "failed"     \* the query, the click or the pause faults
    /\ UNCHANGED <<cn_variant, max_connections, custom_note, cn_page, buttons, cn_b,
                   cn_shown, sent_requests, results, clicks, profile_card, last_note>>

NextConnect ==
    \/ ConnectPage
    \/ ServerButton
    \/ SearchButton
    \/ ConnectNextPage

SpecConnect == InitConnect /\ [][NextConnect]_vars

(***************************************************************************)
(* Claims about the connection-request loops, checked under SpecConnect.   *)
(***************************************************************************)
\* The number of requests max_connections allows: none when it is negative.
Allowed == IF max_connections < 0 THEN 0 ELSE max_connections

\* C1: summed over all result pages, the number of connect buttons clicked
\* never exceeds what max_connections allows, in either loop.
C1_QuotaCeiling == clicks <= Allowed

\* The step handles a connect button: the inner loop of the handler is at a
\* button and the quota check lets it through; the inner loop of the method
\* is at a button of the slice.
ServerHandles ==
    /\ cn_variant = "server"
    /\ cn_pc = "button"
    /\ cn_b <= buttons
    /\ sent_requests < max_connections

SearchHandles ==
    /\ cn_variant = "search_page"
    /\ cn_pc = "button"
    /\ cn_b <= Smaller(buttons, max_connections)

\* The step has appended one entry to results.
OneResultAppended ==
    /\ Len(results') = Len(results) + 1
    /\ SubSeq(results', 1, Len(results)) = results

LastResult(rs) == rs[Len(rs)]

\* C15: in the send_connections handler a fault in handling one connect button
\* stays with that button: after the step the loop is at the next button (or
\* at the end of the page), never in the handler's outer except clause.
C15_AttemptFaultContained ==
    [][ServerHandles => (cn_pc' \in {"button", "next"} /\ cn_b' = cn_b + 1)]_vars

\* C16: every step that handles a connect button appends exactly one entry to
\* results, a success entry without a failure reason or an error entry with
\* one.
C16_OneResultPerAttempt ==
    [][(ServerHandles \/ SearchHandles) =>
          /\ OneResultAppended
          /\ LastResult(results').status \in {"success", "error"}
          /\ LastResult(results').status = "error" <=> LastResult(results').error # "none"]_vars

\* C17: in SearchPage.send_connection_requests, with a note template, whatever
\* the template and the extracted card, the connect button is clicked and the
\* attempt ends as one success or error entry.
C17_NoteFallback ==
    [][(SearchHandles /\ custom_note # <<>>) =>
          /\ clicks' = clicks + 1
          /\ OneResultAppended]_vars

\* C18: when the extraction of the profile card fails for a connect button, a
\* card with the sentinel name stands in, the button is clicked and an entry
\* for it is appended to results.
C18_PlaceholderCard ==
    [][((ServerHandles \/ SearchHandles) /\ profile_card' = NullCard) =>
          /\ clicks' = clicks + 1
          /\ OneResultAppended
          /\ LastResult(results').name = "Unknown Profile"]_vars

\* The quota is not reached, by the loop's counter and by the buttons clicked.
QuotaOpen ==
    /\ sent_requests < max_connections
    /\ clicks < max_connections

\* C19: at the head of the page loop with the quota not reached, the page is
\* processed (its connect buttons are looked up) while fewer than 3 pages
\* have been processed, and the loop ends once 3 have; and when there is no
\* next-page button the loop ends without a further click.
C19_PageLoop ==
    [][/\ (cn_pc = "page" /\ QuotaOpen /\ max_connections >= 1) =>
            IF cn_page < PageLimit
            THEN cn_pc' \in {"button", "failed"}
            ELSE cn_pc' = "returned"
       /\ (cn_pc = "next" /\ cn_pc' = "returned") => clicks' = clicks]_vars

\* C33, as stated: in the handler's loop sent_requests equals the number of
\* entries of results and does not exceed max_connections.
C33_Original ==
    cn_variant = "server" =>
        /\ sent_requests = Len(results)
        /\ sent_requests <= max_connections

\* C33: in the handler's loop sent_requests equals the number of entries of
\* results and exceeds neither max_connections nor, when that is negative, 0;
\* a step that advances either advances both by one, for a button that was
\* clicked and whose send sequence completed; and no button is clicked once
\* sent_requests has reached max_connections.
C33_CounterMatchesResults ==
    [][cn_variant = "server" =>
          /\ sent_requests' = Len(results')
          /\ sent_requests' <= Allowed'
          /\ (sent_requests' # sent_requests \/ results' # results) =>
                /\ sent_requests' = sent_requests + 1
                /\ OneResultAppended
                /\ LastResult(results').status = "success"
                /\ clicks' = clicks + 1
          /\ sent_requests >= max_connections => clicks' = clicks]_vars

\* C33 witness: the handler's loop has returned with the quota of 2 used up, one
\* more button having been clicked without a completed send.
C33_Witness ==
    /\ cn_variant = "server"
    /\ cn_pc = "returned"
    /\ max_connections = 2
    /\ sent_requests = 2
    /\ Len(results) = 2
    /\ clicks = 3

(***************************************************************************)
(* One tool call from end to end: the handler of _handle_scrape_posts or   *)
(* _handle_send_connections with the session lifecycle, and, in place of   *)
(* the outcome of the operation, the loop of scrape_linkedin_posts (with   *)
(* _scroll_page) or the handler's connection loop, step by step.  Every    *)
(* awaited primitive returns or faults: a step that is enabled is taken.   *)
(* The locals of a method are gone when it returns.  What a page shows     *)
(* does not change which steps follow, so the call is given few documents  *)
(* and notes.                                                              *)
(*   th_pc: as above, and "scraping", "connecting" while the loops run.    *)
(*   sp_pc: as above, and "scrolling" while _scroll_page runs.             *)
(***************************************************************************)
\* _scroll_page(self, scrolls: int = 2), called without an argument.
DefaultScrolls == 2

\* ScrapePostsInput.max_posts when the arguments leave it out.
DefaultMaxPosts == 5

\* The documents a profile page serves in the call: no div, or one post.
CallDocs ==
    { <<>>,
      <<[feed |-> TRUE, urn |-> ActivityUrn, text |-> <<"a">>, time |-> <<"1", "d", " ">>]>> }

\* The notes of the call: none, or a literal text (the handler fills the note
\* as it is).
CallNotes == {<<>>, <<"Hi">>}

InitCall ==
    /\ ScrapeIdle
    /\ LoginIdle
    /\ SessionIdle
    /\ ConnectIdle
    /\ ScrollIdle
    /\ MessageIdle
    /\ th_tool \in Tools
    /\ th_pc = "validate"
    /\ th_exc = "none"
    /\ th_result = NoResult
    /\ th_log = <<>>

\* `posts = await self.profile_page.scrape_linkedin_posts(profile_ids, max_posts)`:
\* the call.
CallScrapeStart ==
    /\ UNCHANGED <<loginVars, connectVars, messageVars, scrollVars>>
    /\ th_pc = "operation"
    /\ th_tool = "scrape_posts"
    /\ IF profile_page = Nil
       THEN /\ ToolExcept("'NoneType' object has no attribute 'scrape_linkedin_posts'")
            /\ Logged(<<"release">>)
            /\ UNCHANGED scrapeVars
       ELSE /\ ToolGoOn("scraping")
            /\ Logged(<<"operation">>)
            /\ sp_pc' = "for"
            /\ profile_ids' \in Batches
            /\ max_posts' \in {0, DefaultMaxPosts}
            /\ sp_i' = 1
            /\ all_posts' = <<>>
            /\ sp_raised' = FALSE
            /\ served' = <<>>
            /\ sleeps' = <<>>
    /\ UNCHANGED <<th_tool, fieldVars, live, next_id, calls, es_pc, es_fn>>

\* Mutant of CallScrollStart: the scroll count is one more than the default.
CallScrollStartOneMore ==
    /\ UNCHANGED <<loginVars, sessionVars, connectVars, toolVars, messageVars>>
    /\ sp_pc = "scroll"
    /\ sp_pc' = "scrolling"
    /\ sc_pc' = "loop"
    /\ scrolls' = DefaultScrolls + 1
    /\ sc_i' = 0
    /\ previous_height' = 0
    /\ heights' = <<>>
    /\ scrolled' = 0
    /\ UNCHANGED <<profile_ids, max_posts, sp_i, all_posts, sp_raised, served, sleeps>>

\* `await self._scroll_page()`: the call, with the default scroll count.
CallScrollStart ==
    /\ UNCHANGED <<loginVars, sessionVars, connectVars, toolVars, messageVars>>
    /\ sp_pc = "scroll"
    /\ sp_pc' = "scrolling"
    /\ sc_pc' = "loop"
    /\ scrolls' = DefaultScrolls
    /\ sc_i' = 0
    /\ previous_height' = 0
    /\ heights' = <<>>
    /\ scrolled' = 0
    /\ UNCHANGED <<profile_ids, max_posts, sp_i, all_posts, sp_raised, served, sleeps>>

\* _scroll_page is over: on to page.content(), or its exception reaches the
\* except clause of the loop body.
CallScrollEnd ==
    /\ UNCHANGED <<loginVars, sessionVars, connectVars, toolVars, messageVars>>
    /\ sp_pc = "scrolling"
    /\ sc_pc \in {"returned", "raised"}
    /\ IF sc_pc = "returned"
       THEN /\ sp_pc' = "content"
            /\ UNCHANGED <<sp_i, all_posts, sp_raised, served>>
       ELSE OnProfileFault("scroll_fault")
    /\ sc_pc' = "idle"
    /\ scrolls' = 0
    /\ sc_i' = 0
    /\ previous_height' = 0
    /\ heights' = <<>>
    /\ scrolled' = 0
    /\ UNCHANGED <<profile_ids, max_posts, sleeps>>

\* page.content(), _parse_html_content, the comprehension and the extend, as
\* ScrapeContent, on a document of the call.
CallContent ==
    /\ UNCHANGED otherThanScrape
    /\ sp_pc = "content"
    /\ \E doc \in CallDocs, parsed \in BOOLEAN :
          IF parsed
          THEN LET profile_posts ==
                       ProfilePosts(profile_ids[sp_i], _parse_html_content(doc), max_posts)
               IN  /\ all_posts' = all_posts \o profile_posts
                   /\ served' = Append(served, Fate("ok", doc, profile_posts))
                   /\ ContinueLoop
                   /\ UNCHANGED sp_raised
          ELSE OnProfileFault("parse_fault")
    /\ UNCHANGED <<profile_ids, max_posts, sleeps>>

\* scrape_linkedin_posts returned: the success result, then _cleanup.
CallScrapeEnd ==
    /\ UNCHANGED <<loginVars, connectVars, messageVars, scrollVars>>
    /\ th_pc = "scraping"
    /\ sp_pc = "done"
    /\ sp_pc' = "idle"
    /\ profile_ids' = <<>>
    /\ max_posts' = 0
    /\ sp_i' = 1
    /\ all_posts' = <<>>
    /\ sp_raised' = FALSE
    /\ served' = <<>>
    /\ sleeps' = <<>>
    /\ th_result' = Success
    /\ ToolCleanup("cleanup")
    /\ Logged(<<"release">>)
    /\ UNCHANGED <<th_tool, th_exc, fieldVars, live, next_id, calls, es_pc, es_fn>>

\* _handle_send_connections: the navigation to the search, then
\* `sent_requests = 0; results = []`.
CallConnectStart ==
    /\ UNCHANGED <<scrapeVars, loginVars, messageVars, scrollVars>>
    /\ th_pc = "operation"
    /\ th_tool = "send_connections"
    /\ \E loaded \in BOOLEAN :
          IF loaded
          THEN /\ ToolGoOn("connecting")
               /\ Logged(<<"operation">>)
               /\ cn_variant' = "server"
               /\ cn_pc' = "page"
               /\ max_connections' \in Quotas
               /\ custom_note' \in CallNotes
               /\ UNCHANGED <<cn_page, buttons, cn_b, cn_shown, sent_requests, results,
                              clicks, profile_card, last_note>>
          ELSE /\ ToolExcept("operation error")
               /\ Logged(<<"operation", "release">>)
               /\ UNCHANGED connectVars
    /\ UNCHANGED <<th_tool, fieldVars, live, next_id, calls, es_pc, es_fn>>

\* The connection loop is over: the success result, or the outer except
\* clause; the finally clause follows either way.
CallConnectEnd ==
    /\ UNCHANGED <<scrapeVars, loginVars, messageVars, scrollVars>>
    /\ th_pc = "connecting"
    /\ cn_pc \in {"returned", "failed"}
    /\ cn_variant' = "none"
    /\ cn_pc' = "idle"
    /\ max_connections' = 0
    /\ custom_note' = <<>>
    /\ cn_page' = 0
    /\ buttons' = 0
    /\ cn_b' = 1
    /\ cn_shown' = 0
    /\ sent_requests' = 0
    /\ results' = <<>>
    /\ clicks' = 0
    /\ profile_card' = Unbound
    /\ last_note' = <<>>
    /\ IF cn_pc = "returned"
       THEN /\ th_result' = Success
            /\ ToolCleanup("finally_cleanup")
            /\ UNCHANGED th_exc
       ELSE ToolExcept("operation error")
    /\ Logged(<<"release">>)
    /\ UNCHANGED <<th_tool, fieldVars, live, next_id, calls, es_pc, es_fn>>

NextCall ==
    \/ ToolValidate
    \/ ToolAfterEnsure
    \/ ToolProbe
    \/ ToolLogin
    \/ CallScrapeStart
    \/ ScrapeFor
    \/ ScrapeNavigate
    \/ ScrapeWait
    \/ CallScrollStart
    \/ ScrollIteration
    \/ ScrollFinalWait
    \/ CallScrollEnd
    \/ CallContent
    \/ CallScrapeEnd
    \/ CallConnectStart
    \/ ConnectPage
    \/ ServerButton
    \/ ConnectNextPage
    \/ CallConnectEnd
    \/ ScrapeAfterCleanup
    \/ ScrapeAfterExceptCleanup
    \/ SendAfterFinallyCleanup
    \/ EnsureAfterEntryCleanup
    \/ SessionStart
    \/ SessionLaunch
    \/ SessionNewContext
    \/ SessionNewPage
    \/ SessionPageObjects
    \/ SessionAfterExceptCleanup
    \/ CleanupContext
    \/ CleanupBrowser
    \/ CleanupPlaywright
    \/ CleanupFinally

SpecCall == InitCall /\ [][NextCall]_vars /\ WF_vars(NextCall)

(***************************************************************************)
(* Claims about a tool call from end to end, checked under SpecCall.       *)
(***************************************************************************)
\* The handler is over, by a return or by an exception.
CallOver == th_pc \in {"returned", "raised"}

\* C31: every scrape_posts and send_connections call comes to its end, having
\* released the session; on the way the connection loop begins at most 3
\* result pages and each run of _scroll_page issues at most the default
\* number of scrolls.
C31_CallTerminates ==
    /\ <>(CallOver /\ Contains(th_log, "release") /\ SessionClosed)
    /\ [](cn_page <= PageLimit /\ scrolled <= DefaultScrolls)

\* C31 witness: a send_connections call that logged in and ran its loop has
\* returned its success result with the session released.
C31_Witness ==
    /\ th_tool = "send_connections"
    /\ th_pc = "returned"
    /\ th_result = Success
    /\ th_log = <<"acquire", "probe_false", "login_true", "operation", "release">>
    /\ SessionClosed

====
